---- MODULE Spec2Model ----
(***************************************************************************)
(* Spec-Driven Development protocol of vospr/scenariod: the spec packet,  *)
(* the three automated gates, the expanded task lifecycle with graduated  *)
(* escalation, and the feature tracker with stall detection and recovery. *)
(***************************************************************************)
EXTENDS Naturals, Sequences, FiniteSets, TLC

VARIABLES tasks, nextTaskId, tracker, snapshot, overviews, nextFeatureId,
          needs_respec, cycle, probe

vars == <<tasks, nextTaskId, tracker, snapshot, overviews, nextFeatureId,
          needs_respec, cycle, probe>>

(***************************************************************************)
(* Bounds of the model and constants of the protocol.                      *)
(***************************************************************************)
MaxTasks == 1
MaxFeatureTasks == 3
MaxRecoveryTasks == 1
MaxFeatures == 1

MaxAssertions == 7
MaxTasksPerFeature == 7
MaxReviewCycles == 3
StallThreshold == 3

NoFeature == 0

(***************************************************************************)
(* Section 1: the spec packet.  A text field is kept as what the gates     *)
(* read from it: the controlled-vocabulary keywords that occur in it, and  *)
(* whether it holds a banned vague term and a specific observable.         *)
(***************************************************************************)
RequiredFields == {"version", "intent", "assertions", "constraints", "file_scope"}

AssertionFields == {"id", "positive", "negative"}

Keywords == {"MUST", "MUST NOT", "SHOULD", "MAY"}

Txt(kws, vague, observable) ==
    [keywords |-> kws, vague |-> vague, observable |-> observable]

Assertion(id, pos, neg) ==
    [id |-> id, fields |-> AssertionFields, positive |-> pos, negative |-> neg]

AssertionIds(p) == {p.assertions[i].id : i \in 1..Len(p.assertions)}

\* "POST /api/auth/login MUST return 200 ..." / "... MUST NOT return 200 ..."
MustA(id) == Assertion(id, Txt(<<"MUST">>, FALSE, TRUE), Txt(<<"MUST NOT">>, FALSE, TRUE))

\* "Authentication works correctly" / "Authentication does not break"
VagueA(id) == Assertion(id, Txt(<<>>, TRUE, FALSE), Txt(<<>>, FALSE, FALSE))

Packet(asserts, scope) ==
    [delimiters |-> TRUE, yaml |-> TRUE, fields |-> RequiredFields, version |-> 1,
     assertions |-> asserts, file_scope |-> scope]

Files == {"a.txt", "b.txt"}

GoodPacket == Packet(<<MustA("A1"), MustA("A2")>>, {"a.txt"})
SmallPacket == Packet(<<MustA("A1")>>, {"b.txt"})
VaguePacket == Packet(<<VagueA("A1")>>, {"a.txt"})
MalformedPacket == [GoodPacket EXCEPT !.yaml = FALSE]

(***************************************************************************)
(* Section 14: Layer 1 gates.  A gate result names the gate, whether it    *)
(* passed, and the checks that failed.                                     *)
(***************************************************************************)
GateResult(name, violations, warnings) ==
    [gate |-> name, passed |-> violations = {}, violations |-> violations,
     warnings |-> warnings]

V(check, subject) == [check |-> check, subject |-> subject]

Opposite(k) ==
    CASE k = "MUST" -> "MUST NOT"
      [] k = "MUST NOT" -> "MUST"
      [] k = "SHOULD" -> "SHOULD NOT"
      [] OTHER -> "NONE"

\* VocabularyOK testing only that each field uses some keyword.
VocabularyPresent(a) ==
    /\ \E i \in 1..Len(a.positive.keywords) : a.positive.keywords[i] \in Keywords
    /\ \E i \in 1..Len(a.negative.keywords) :
          a.negative.keywords[i] \in Keywords \cup {"SHOULD NOT"}

VocabularyOK(a) ==
    /\ Len(a.positive.keywords) = 1
    /\ a.positive.keywords[1] \in Keywords
    /\ Len(a.negative.keywords) = 1
    /\ a.negative.keywords[1] = Opposite(a.positive.keywords[1])

QualityOK(a) ==
    /\ a.positive.vague => a.positive.observable
    /\ a.negative.vague => a.negative.observable

\* Gate 1: the 7 checks of the table; a check that needs the parsed structure is
\* reported only when the packet has that structure.
LintViolations(p) ==
    IF ~p.delimiters THEN {V("Delimiter presence", "packet")}
    ELSE IF ~p.yaml THEN {V("YAML parse", "packet")}
    ELSE IF ~(RequiredFields \subseteq p.fields)
    THEN {V("Required fields", f) : f \in RequiredFields \ p.fields}
    ELSE LET as == {p.assertions[i] : i \in 1..Len(p.assertions)} IN
         IF \E a \in as : ~(AssertionFields \subseteq a.fields)
         THEN {V("Assertion structure", a.id) : a \in {x \in as : ~(AssertionFields \subseteq x.fields)}}
         ELSE {V("Controlled vocabulary", a.id) : a \in {x \in as : ~VocabularyOK(x)}}
              \cup {V("Quality gate", a.id) : a \in {x \in as : ~QualityOK(x)}}
              \cup (IF Len(p.assertions) > MaxAssertions
                    THEN {V("7x7 constraint", "packet")} ELSE {})

SpecLint(p) == GateResult("Spec Lint", LintViolations(p), {})

(***************************************************************************)
(* Section 11: evidence.  A report is the sequence of result lines the     *)
(* implementer writes; the task keeps one record per assertion id.         *)
(***************************************************************************)
Ev(id, result, location, detail) ==
    [assertion_id |-> id, result |-> result, location |-> location,
     expected_actual |-> detail]

PassLine(id) == Ev(id, "PASS", TRUE, FALSE)
FailLine(id) == Ev(id, "FAIL", TRUE, TRUE)

NoEvidence == <<>>

\* The record a report holds for id: the last line written for it.
LastLine(report, id) ==
    LET idx == {i \in 1..Len(report) : report[i].assertion_id = id}
    IN report[CHOOSE i \in idx : \A j \in idx : j <= i]

ReportedIds(report) == {report[i].assertion_id : i \in 1..Len(report)}

\* MergeEvidence keeping the record already held for an id.
MergeEvidenceKeepFirst(old, report) ==
    [id \in (DOMAIN old) \cup ReportedIds(report) |->
        IF id \in DOMAIN old THEN old[id] ELSE LastLine(report, id)]

\* Re-reporting fixes FAIL items or adds missing results: per assertion id the
\* new line replaces the record held.
MergeEvidence(old, report) ==
    [id \in (DOMAIN old) \cup ReportedIds(report) |->
        IF id \in ReportedIds(report) THEN LastLine(report, id) ELSE old[id]]

HasPass(ev, id) == id \in DOMAIN ev /\ ev[id].result = "PASS"

\* NOT DONE rule, conditions 1 and 2: every assertion id has a PASS result.
\* AllPass testing only that a result was reported, not that it is PASS.
AllReported(p, ev) == \A id \in AssertionIds(p) : id \in DOMAIN ev

AllPass(p, ev) == \A id \in AssertionIds(p) : HasPass(ev, id)

\* AuditViolations without the FAIL detail check.
AuditViolationsNoDetail(p, ev) ==
    LET ids == AssertionIds(p)
        got == DOMAIN ev
    IN {V("Completeness", id) : id \in ids \ DOMAIN ev}
       \cup {V("Status present", id) : id \in {x \in got : ev[x].result \notin {"PASS", "FAIL"}}}
       \cup {V("Evidence format", id) : id \in {x \in got : ~ev[x].location}}

\* Gate 2: the four checks of the table, the last three on each result of the
\* report.
AuditViolations(p, ev) ==
    LET ids == AssertionIds(p)
        got == DOMAIN ev
    IN {V("Completeness", id) : id \in ids \ DOMAIN ev}
       \cup {V("Status present", id) : id \in {x \in got : ev[x].result \notin {"PASS", "FAIL"}}}
       \cup {V("Evidence format", id) : id \in {x \in got : ~ev[x].location}}
       \cup {V("FAIL detail", id) : id \in {x \in got : ev[x].result = "FAIL" /\ ~ev[x].expected_actual}}

AssertionAudit(p, ev) == GateResult("Assertion Audit", AuditViolations(p, ev), {})

\* FileScopeAudit counting an untouched scope file as a violation.
FileScopeAuditStrict(p, modified) ==
    GateResult("File Scope Audit",
               {V("No out-of-scope modifications", f) : f \in modified \ p.file_scope}
                  \cup {V("Completeness warning", f) : f \in p.file_scope \ modified},
               {})

\* Gate 3
FileScopeAudit(p, modified) ==
    GateResult("File Scope Audit",
               {V("No out-of-scope modifications", f) : f \in modified \ p.file_scope},
               {V("Completeness warning", f) : f \in p.file_scope \ modified})

\* RunGates without the early exit: every gate reports, whatever came before.
RunGatesAll(p, ev, modified) ==
    <<SpecLint(p), AssertionAudit(p, ev), FileScopeAudit(p, modified)>>

\* Layer 1: the gates in order; a failing gate ends the run.
RunGates(p, ev, modified) ==
    LET g1 == SpecLint(p) IN
    IF ~g1.passed THEN <<g1>>
    ELSE LET g2 == AssertionAudit(p, ev) IN
         IF ~g2.passed THEN <<g1, g2>>
         ELSE <<g1, g2, FileScopeAudit(p, modified)>>

GatesPassed(results) == Len(results) = 3 /\ \A i \in 1..3 : results[i].passed

FailedGate(results) == results[Len(results)]

(***************************************************************************)
(* Sections 10 and 15: tasks and their lifecycle.                          *)
(***************************************************************************)
States == {"DRAFT", "LINT_PASS", "RATIFIED", "EXECUTING", "VERIFIED", "BLOCKED"}

NoReason == [stage |-> "none", gate |-> "none", violations |-> {}]

\* Reason that records a generic failure: neither the gate nor the checks.
ReasonGeneric(stage, gate, violations) ==
    [stage |-> stage, gate |-> "none", violations |-> {}]

Reason(stage, gate, violations) ==
    [stage |-> stage, gate |-> gate, violations |-> violations]

NewTask(tier, p) ==
    [tier |-> tier, packet |-> p, state |-> "DRAFT", evidence |-> NoEvidence,
     lint_retry |-> FALSE, gate_feedback |-> "none", review_cycles |-> 0,
     blocked_reason |-> NoReason]

TaskIds == DOMAIN tasks

\* DispatchableFrom without the tier distinction: every tier leaves from LINT_PASS.
DispatchableFromLint(tier) == "LINT_PASS"

\* SIMPLE skips RATIFIED; MODERATE and COMPLEX are dispatched from RATIFIED.
DispatchableFrom(tier) == IF tier = "SIMPLE" THEN "LINT_PASS" ELSE "RATIFIED"

\* The reviewer pre-check on the spec exists for MODERATE and COMPLEX only.
\* SpecReviewed with the spec review applied to every tier.
SpecReviewedAll(tier) == TRUE

SpecReviewed(tier) == tier \in {"MODERATE", "COMPLEX"}

\* Revisable with the freeze set at dispatch instead of at ratification.
RevisableUntilDispatch(state) == state \in {"DRAFT", "LINT_PASS", "RATIFIED"}

\* The planner writes and revises the packet in DRAFT (a NEEDS_CHANGES spec
\* review returns the task there); it is immutable from RATIFIED onward.
Revisable(state) == state = "DRAFT"

\* Reviewable without the state test: a verdict is accepted for any linted task.
ReviewableOnceLinted(task) ==
    task.state \notin {"DRAFT", "BLOCKED"} /\ SpecReviewed(task.tier)

\* The spec review acts on a linted packet of a tier that has the pre-check.
Reviewable(task) == task.state = "LINT_PASS" /\ SpecReviewed(task.tier)

\* Evidence is reported, and the gates run, for a task the implementer is executing.
Verifiable(state) == state = "EXECUTING"

(***************************************************************************)
(* Sections 12 and 13: the feature tracker.                                *)
(***************************************************************************)
NewEntry == [phase |-> "DRAFT", tasks |-> <<>>, verified |-> FALSE]

Healthy == tracker.status = "healthy"

NoSnapshot == [exists |-> FALSE, entries |-> <<>>]

SeqSet(s) == {s[i] : i \in 1..Len(s)}

\* The feature whose tasks array holds task id t, as the tracker shows it.
FeatureOf(trk, t) ==
    IF trk.status = "healthy" /\ \E f \in DOMAIN trk.entries : t \in SeqSet(trk.entries[f].tasks)
    THEN CHOOSE f \in DOMAIN trk.entries : t \in SeqSet(trk.entries[f].tasks)
    ELSE NoFeature

\* Automated DONE transition: a task counts when it has an evidence report in
\* which every assertion id of its spec is PASS.
TaskAllPass(task) == DOMAIN task.evidence # {} /\ AllPass(task.packet, task.evidence)

FeatureComplete(ts, ids) == \A i \in 1..Len(ids) : TaskAllPass(ts[ids[i]])

\* Recompute moving the phase one step per run instead of setting it.
RecomputeStepwise(ts, e) ==
    IF FeatureComplete(ts, e.tasks)
    THEN [e EXCEPT !.phase = IF @ = "DRAFT" THEN "ACTIVE" ELSE "DONE",
                   !.verified = (e.phase # "DRAFT")]
    ELSE e

Recompute(ts, e) ==
    IF FeatureComplete(ts, e.tasks)
    THEN [e EXCEPT !.verified = TRUE, !.phase = "DONE"]
    ELSE e

BlockedCount(ts, ids) == Cardinality({t \in SeqSet(ids) : ts[t].state = "BLOCKED"})

\* Stalled with the threshold compared one task late.
StalledLate(ts, ids) == BlockedCount(ts, ids) > StallThreshold

Stalled(ts, ids) == BlockedCount(ts, ids) >= StallThreshold

\* TrackerAfter reading the task list as it was before the transition.
TrackerAfterStale(ts, t) ==
    LET f == FeatureOf(tracker, t) IN
    IF f = NoFeature THEN tracker
    ELSE [tracker EXCEPT !.entries[f] = Recompute(tasks, @)]

\* Post-task completion checklist, steps 3 to 6, for the feature holding t.
TrackerAfter(ts, t) ==
    LET f == FeatureOf(tracker, t) IN
    IF f = NoFeature THEN tracker
    ELSE [tracker EXCEPT !.entries[f] = Recompute(ts, @)]

RespecAfter(ts, t) ==
    LET f == FeatureOf(tracker, t) IN
    IF f # NoFeature /\ Stalled(ts, tracker.entries[f].tasks)
    THEN needs_respec \cup {f}
    ELSE needs_respec

\* Halted with dispatch also held back while the tracker cannot be read.
HaltedUntracked(t) == ~Healthy \/ FeatureOf(tracker, t) \in needs_respec

\* Layer 2 of the cascade: dispatch of a flagged feature's tasks is halted.
Halted(t) == FeatureOf(tracker, t) \in needs_respec

NoProbe == [packet |-> <<>>, evidence |-> <<>>, modified |-> {}, results |-> <<>>]

NoCycle ==
    [task |-> 0, kind |-> "none", retry_of |-> "none", gates |-> <<>>, level |-> "none",
     tracked |-> TRUE, warned |-> {}, reviewed |-> FALSE]

GateSummary(results) == [i \in 1..Len(results) |-> [gate |-> results[i].gate, passed |-> results[i].passed]]

Init ==
    /\ tasks = <<>>
    /\ nextTaskId = 1
    /\ tracker = [status |-> "healthy", entries |-> <<>>]
    /\ snapshot = NoSnapshot
    /\ overviews = <<>>
    /\ nextFeatureId = 1
    /\ needs_respec = {}
    /\ cycle = NoCycle
    /\ probe = NoProbe

(***************************************************************************)
(* Planner: features, tasks and packets.                                   *)
(***************************************************************************)
Extend(fn, k, v) == [x \in (DOMAIN fn) \cup {k} |-> IF x = k THEN v ELSE fn[x]]

CreateFeature ==
    /\ nextFeatureId <= MaxFeatures
    /\ overviews' = Extend(overviews, nextFeatureId, <<>>)
    /\ tracker' = IF Healthy
                  THEN [tracker EXCEPT !.entries = Extend(@, nextFeatureId, NewEntry)]
                  ELSE tracker
    /\ nextFeatureId' = nextFeatureId + 1
    /\ UNCHANGED <<probe, tasks, nextTaskId, snapshot, needs_respec, cycle>>

\* TaskCreate with the spec packet embedded; the planner adds the id to the
\* overview's task list and to the tracker entry's tasks array.
AddTask(trk, f, t) ==
    IF trk.status = "healthy" /\ f \in DOMAIN trk.entries
    THEN [trk EXCEPT !.entries[f].tasks = Append(@, t)]
    ELSE trk

\* CreateTask that leaves the id counter where it was.
CreateTaskSameId(maxTasks, f, tier, p) ==
    /\ nextTaskId <= maxTasks
    /\ f = NoFeature => tier = "SIMPLE"
    /\ f # NoFeature => f \in DOMAIN overviews /\ Len(overviews[f]) < MaxTasksPerFeature
    /\ tasks' = Extend(tasks, nextTaskId, NewTask(tier, p))
    /\ overviews' = IF f = NoFeature THEN overviews
                    ELSE [overviews EXCEPT ![f] = Append(@, nextTaskId)]
    /\ tracker' = AddTask(tracker, f, nextTaskId)
    /\ UNCHANGED <<probe, nextTaskId, snapshot, nextFeatureId, needs_respec, cycle>>

CreateTask(maxTasks, f, tier, p) ==
    /\ nextTaskId <= maxTasks
    /\ f = NoFeature => tier = "SIMPLE"
    /\ f # NoFeature => f \in DOMAIN overviews /\ Len(overviews[f]) < MaxTasksPerFeature
    /\ tasks' = Extend(tasks, nextTaskId, NewTask(tier, p))
    /\ nextTaskId' = nextTaskId + 1
    /\ overviews' = IF f = NoFeature THEN overviews
                    ELSE [overviews EXCEPT ![f] = Append(@, nextTaskId)]
    /\ tracker' = AddTask(tracker, f, nextTaskId)
    /\ UNCHANGED <<probe, snapshot, nextFeatureId, needs_respec, cycle>>

PlannerRevise(t, p) ==
    /\ t \in TaskIds
    /\ Revisable(tasks[t].state)
    /\ p # tasks[t].packet
    /\ tasks' = [tasks EXCEPT ![t].packet = p]
    /\ UNCHANGED <<probe, nextTaskId, tracker, snapshot, overviews, nextFeatureId, needs_respec, cycle>>

(***************************************************************************)
(* DRAFT -> LINT_PASS: Gate 1 on the embedded packet, one retry, then the  *)
(* forgiving parser for a packet whose YAML does not parse.                *)
(***************************************************************************)
ForgivingParse(p) ==
    IF p.delimiters /\ ~p.yaml /\ RequiredFields \subseteq p.fields
    THEN [p EXCEPT !.yaml = TRUE]
    ELSE p

\* LintOutcome that goes to the forgiving parser on the first failure.
LintOutcomeNoRetry(task) ==
    LET r == SpecLint(task.packet)
        fp == ForgivingParse(task.packet)
        r2 == SpecLint(fp)
    IN  IF r.passed
        THEN [task EXCEPT !.state = "LINT_PASS", !.lint_retry = FALSE]
        ELSE IF r2.passed
        THEN [task EXCEPT !.state = "LINT_PASS", !.lint_retry = FALSE, !.packet = fp]
        ELSE [task EXCEPT !.state = "BLOCKED",
                          !.blocked_reason = Reason("DRAFT", r2.gate, r2.violations)]

LintOutcome(task) ==
    LET r == SpecLint(task.packet)
        fp == ForgivingParse(task.packet)
        r2 == SpecLint(fp)
    IN  IF r.passed
        THEN [task EXCEPT !.state = "LINT_PASS", !.lint_retry = FALSE]
        ELSE IF ~task.lint_retry
        THEN [task EXCEPT !.lint_retry = TRUE]
        ELSE IF r2.passed
        THEN [task EXCEPT !.state = "LINT_PASS", !.lint_retry = FALSE, !.packet = fp]
        ELSE [task EXCEPT !.state = "BLOCKED",
                          !.blocked_reason = Reason("DRAFT", r2.gate, r2.violations)]

LintDraft(t) ==
    /\ t \in TaskIds
    /\ tasks[t].state = "DRAFT"
    /\ tasks' = [tasks EXCEPT ![t] = LintOutcome(@)]
    /\ needs_respec' = IF Healthy THEN RespecAfter(tasks', t) ELSE needs_respec
    /\ cycle' = [task |-> t, kind |-> "lint",
                 retry_of |-> IF tasks[t].lint_retry THEN "Spec Lint" ELSE "none",
                 gates |-> GateSummary(<<SpecLint(tasks[t].packet)>>),
                 level |-> IF tasks'[t].state = "BLOCKED" THEN "Red" ELSE "none",
                 tracked |-> Healthy, warned |-> cycle.warned, reviewed |-> FALSE]
    /\ UNCHANGED <<probe, nextTaskId, tracker, snapshot, overviews, nextFeatureId>>

\* LINT_PASS -> RATIFIED on the reviewer's APPROVED; on NEEDS_CHANGES the planner
\* revises and the packet is linted again.
SpecReview(t, verdict) ==
    /\ t \in TaskIds
    /\ Reviewable(tasks[t])
    /\ tasks' = [tasks EXCEPT ![t].state =
                    IF verdict = "APPROVED" THEN "RATIFIED" ELSE "DRAFT"]
    /\ UNCHANGED <<probe, nextTaskId, tracker, snapshot, overviews, nextFeatureId, needs_respec, cycle>>

(***************************************************************************)
(* Dispatch to the implementer.                                            *)
(***************************************************************************)
ScopeDisjoint(t) ==
    \A u \in TaskIds \ {t} :
        tasks[u].state = "EXECUTING" =>
            tasks[u].packet.file_scope \cap tasks[t].packet.file_scope = {}

\* MarkActive setting the phase at every dispatch.
MarkActiveAlways(trk, t) ==
    LET f == FeatureOf(trk, t) IN
    IF f # NoFeature
    THEN [trk EXCEPT !.entries[f].phase = "ACTIVE"]
    ELSE trk

MarkActive(trk, t) ==
    LET f == FeatureOf(trk, t) IN
    IF f # NoFeature /\ trk.entries[f].phase = "DRAFT"
    THEN [trk EXCEPT !.entries[f].phase = "ACTIVE"]
    ELSE trk

\* Dispatch without the look at the scopes of the executing tasks.
DispatchAnyScope(t) ==
    /\ t \in TaskIds
    /\ tasks[t].state = DispatchableFrom(tasks[t].tier)
    /\ ~Halted(t)
    /\ tasks' = [tasks EXCEPT ![t].state = "EXECUTING"]
    /\ tracker' = MarkActive(tracker, t)
    /\ UNCHANGED <<probe, nextTaskId, snapshot, overviews, nextFeatureId, needs_respec, cycle>>

Dispatch(t) ==
    /\ t \in TaskIds
    /\ tasks[t].state = DispatchableFrom(tasks[t].tier)
    /\ ~Halted(t)
    /\ ScopeDisjoint(t)
    /\ tasks' = [tasks EXCEPT ![t].state = "EXECUTING"]
    /\ tracker' = MarkActive(tracker, t)
    /\ UNCHANGED <<probe, nextTaskId, snapshot, overviews, nextFeatureId, needs_respec, cycle>>

(***************************************************************************)
(* EXECUTING -> VERIFIED: one verification cycle.  The implementer reports *)
(* evidence, Layer 1 runs, then Layer 2 (the reviewer) or the retry and    *)
(* escalation rules decide the task's state; the post-task checklist       *)
(* follows in the same step of the dispatch loop.                          *)
(***************************************************************************)
Verdicts(task, passed, allpass) ==
    IF ~passed THEN {"NONE"}
    ELSE IF ~allpass THEN {"NEEDS_CHANGES"}
    ELSE IF task.tier = "SIMPLE" THEN {"APPROVED", "NEEDS_CHANGES", "SKIPPED"}
    ELSE {"APPROVED", "NEEDS_CHANGES"}

\* GateFailure counting the retry per gate: BLOCKED only when the same gate fails twice.
GateFailurePerGate(task, results) ==
    IF task.gate_feedback # FailedGate(results).gate
    THEN [task EXCEPT !.gate_feedback = FailedGate(results).gate]
    ELSE [task EXCEPT !.state = "BLOCKED",
                      !.blocked_reason = Reason("EXECUTING", FailedGate(results).gate,
                                                FailedGate(results).violations)]

\* Gate failure handling: feedback and one retry, BLOCKED when the retry fails too.
GateFailure(task, results) ==
    IF task.gate_feedback = "none"
    THEN [task EXCEPT !.gate_feedback = FailedGate(results).gate]
    ELSE [task EXCEPT !.state = "BLOCKED",
                      !.blocked_reason = Reason("EXECUTING", FailedGate(results).gate,
                                                FailedGate(results).violations)]

\* ReviewFailure with the limit compared one cycle late.
ReviewFailureLate(task) ==
    IF task.review_cycles + 1 > MaxReviewCycles
    THEN [task EXCEPT !.review_cycles = @ + 1, !.gate_feedback = "none", !.state = "BLOCKED",
                      !.blocked_reason = Reason("EXECUTING", "Agent Review", {})]
    ELSE [task EXCEPT !.review_cycles = @ + 1, !.gate_feedback = "none"]

\* Worker-reviewer circuit breaker: the third failed cycle marks the task BLOCKED.
ReviewFailure(task) ==
    IF task.review_cycles + 1 >= MaxReviewCycles
    THEN [task EXCEPT !.review_cycles = @ + 1, !.gate_feedback = "none", !.state = "BLOCKED",
                      !.blocked_reason = Reason("EXECUTING", "Agent Review",
                          {V("Circuit breaker", id) : id \in
                              {x \in AssertionIds(task.packet) : ~HasPass(task.evidence, x)}})]
    ELSE [task EXCEPT !.review_cycles = @ + 1, !.gate_feedback = "none"]

\* CycleGates resuming the retry at the gate that failed.
CycleGatesResume(task, modified) ==
    IF task.gate_feedback = "File Scope Audit"
    THEN <<FileScopeAudit(task.packet, modified)>>
    ELSE IF task.gate_feedback = "Assertion Audit"
    THEN LET g2 == AssertionAudit(task.packet, task.evidence) IN
         IF ~g2.passed THEN <<g2>> ELSE <<g2, FileScopeAudit(task.packet, modified)>>
    ELSE RunGates(task.packet, task.evidence, modified)

\* Every cycle, the retry cycle included, runs the gates from the beginning.
CycleGates(task, modified) == RunGates(task.packet, task.evidence, modified)

\* CycleOutcome deciding on the evidence before looking at the gate results.
CycleOutcomeEvidenceFirst(task, results, verdict) ==
    IF AllPass(task.packet, task.evidence) /\ verdict # "NEEDS_CHANGES"
    THEN [task EXCEPT !.state = "VERIFIED", !.gate_feedback = "none"]
    ELSE IF ~GatesPassed(results) THEN GateFailure(task, results)
    ELSE ReviewFailure(task)

CycleOutcome(task, results, verdict) ==
    IF ~GatesPassed(results) THEN GateFailure(task, results)
    ELSE IF AllPass(task.packet, task.evidence) /\ verdict # "NEEDS_CHANGES"
    THEN [task EXCEPT !.state = "VERIFIED", !.gate_feedback = "none"]
    ELSE ReviewFailure(task)

CycleLevel(before, after, results) ==
    IF after.state = "BLOCKED" THEN "Red"
    ELSE IF after.state = "VERIFIED"
    THEN (IF results[3].warnings = {} THEN "Green" ELSE "Yellow")
    ELSE IF after.review_cycles > before.review_cycles THEN "Orange"
    ELSE "none"

\* The warnings of a cycle that has nothing but warnings: every gate passed
\* and every assertion is PASS.
CycleWarnings(task, results) ==
    IF GatesPassed(results) /\ AllPass(task.packet, task.evidence)
    THEN results[3].warnings ELSE {}

\* Warnings are tracked per feature: those of this cycle already logged for
\* another task of the task's feature.
Recurring(t, warnings, log) ==
    {w \in warnings :
        /\ FeatureOf(tracker, t) # NoFeature
        /\ \E e \in log : /\ e.task # t /\ e.warning = w
                           /\ FeatureOf(tracker, e.task) = FeatureOf(tracker, t)}

\* Escalate without the recurrence rule.
EscalateNever(level, recurring) == level

\* Yellow -> Orange when the same warning recurs across tasks of a feature.
Escalate(level, recurring) ==
    IF level = "Yellow" /\ recurring # {} THEN "Orange" ELSE level

\* VerifyCycle with the post-task checklist left to a later run.
VerifyCycleDeferred(t, report, modified, verdict) ==
    /\ t \in TaskIds
    /\ Verifiable(tasks[t].state)
    /\ LET reported == [tasks[t] EXCEPT !.evidence = MergeEvidence(@, report)]
           results == CycleGates(reported, modified)
           after == CycleOutcome(reported, results, verdict)
           warnings == CycleWarnings(reported, results)
           recurring == Recurring(t, warnings, cycle.warned)
       IN /\ verdict \in Verdicts(reported, GatesPassed(results),
                                  AllPass(reported.packet, reported.evidence))
          /\ recurring # {} => verdict # "SKIPPED"
          /\ tasks' = [tasks EXCEPT ![t] = after]
          /\ cycle' = [task |-> t, kind |-> "verify", retry_of |-> tasks[t].gate_feedback,
                       gates |-> GateSummary(results),
                       level |-> Escalate(CycleLevel(tasks[t], after, results), recurring),
                       tracked |-> Healthy,
                       warned |-> cycle.warned \cup {[task |-> t, warning |-> w] : w \in warnings},
                       reviewed |-> verdict \in {"APPROVED", "NEEDS_CHANGES"}]
    /\ tracker' = tracker
    /\ needs_respec' = IF Healthy THEN RespecAfter(tasks', t) ELSE needs_respec
    /\ UNCHANGED <<probe, nextTaskId, snapshot, overviews, nextFeatureId>>

VerifyCycle(t, report, modified, verdict) ==
    /\ t \in TaskIds
    /\ Verifiable(tasks[t].state)
    /\ LET reported == [tasks[t] EXCEPT !.evidence = MergeEvidence(@, report)]
           results == CycleGates(reported, modified)
           after == CycleOutcome(reported, results, verdict)
           warnings == CycleWarnings(reported, results)
           recurring == Recurring(t, warnings, cycle.warned)
       IN /\ verdict \in Verdicts(reported, GatesPassed(results),
                                  AllPass(reported.packet, reported.evidence))
          /\ recurring # {} => verdict # "SKIPPED"
          /\ tasks' = [tasks EXCEPT ![t] = after]
          /\ cycle' = [task |-> t, kind |-> "verify", retry_of |-> tasks[t].gate_feedback,
                       gates |-> GateSummary(results),
                       level |-> Escalate(CycleLevel(tasks[t], after, results), recurring),
                       tracked |-> Healthy,
                       warned |-> cycle.warned \cup {[task |-> t, warning |-> w] : w \in warnings},
                       reviewed |-> verdict \in {"APPROVED", "NEEDS_CHANGES"}]
    /\ tracker' = IF Healthy THEN TrackerAfter(tasks', t) ELSE tracker
    /\ needs_respec' = IF Healthy THEN RespecAfter(tasks', t) ELSE needs_respec
    /\ UNCHANGED <<probe, nextTaskId, snapshot, overviews, nextFeatureId>>

(***************************************************************************)
(* Feature stall response: the planner re-specs a flagged feature.  New    *)
(* tasks replace the BLOCKED ones in the feature's tasks array.            *)
(***************************************************************************)
KeepUnblocked(ts, ids) == SelectSeq(ids, LAMBDA t : ts[t].state # "BLOCKED")

\* ReSpec run without waiting for the NEEDS_RESPEC flag.
ReSpecUnflagged(maxTasks, f, plan) ==
    /\ f \in DOMAIN overviews
    /\ Healthy
    /\ f \in DOMAIN tracker.entries
    /\ nextTaskId + Len(plan) - 1 <= maxTasks
    /\ LET newIds == [i \in 1..Len(plan) |-> nextTaskId + i - 1]
           kept == KeepUnblocked(tasks, tracker.entries[f].tasks) \o newIds
       IN /\ tasks' = [t \in TaskIds \cup SeqSet(newIds) |->
                          IF t \in TaskIds THEN tasks[t]
                          ELSE NewTask(plan[t - nextTaskId + 1].tier,
                                       plan[t - nextTaskId + 1].packet)]
          /\ tracker' = [tracker EXCEPT !.entries[f].tasks = kept]
          /\ overviews' = [overviews EXCEPT ![f] = kept]
    /\ nextTaskId' = nextTaskId + Len(plan)
    /\ needs_respec' = needs_respec \ {f}
    /\ UNCHANGED <<probe, snapshot, nextFeatureId, cycle>>

ReSpec(maxTasks, f, plan) ==
    /\ f \in needs_respec
    /\ Healthy
    /\ f \in DOMAIN tracker.entries
    /\ nextTaskId + Len(plan) - 1 <= maxTasks
    /\ LET newIds == [i \in 1..Len(plan) |-> nextTaskId + i - 1]
           kept == KeepUnblocked(tasks, tracker.entries[f].tasks) \o newIds
       IN /\ tasks' = [t \in TaskIds \cup SeqSet(newIds) |->
                          IF t \in TaskIds THEN tasks[t]
                          ELSE NewTask(plan[t - nextTaskId + 1].tier,
                                       plan[t - nextTaskId + 1].packet)]
          /\ tracker' = [tracker EXCEPT !.entries[f].tasks = kept]
          /\ overviews' = [overviews EXCEPT ![f] = kept]
    /\ nextTaskId' = nextTaskId + Len(plan)
    /\ needs_respec' = needs_respec \ {f}
    /\ UNCHANGED <<probe, snapshot, nextFeatureId, cycle>>

(***************************************************************************)
(* Tracker file: commits, corruption and the three recovery procedures.    *)
(***************************************************************************)
CommitTracker ==
    /\ Healthy
    /\ snapshot # [exists |-> TRUE, entries |-> tracker.entries]
    /\ snapshot' = [exists |-> TRUE, entries |-> tracker.entries]
    /\ UNCHANGED <<probe, tasks, nextTaskId, tracker, overviews, nextFeatureId, needs_respec, cycle>>

CorruptTracker(gitLost) ==
    /\ Healthy
    /\ tracker' = [status |-> "corrupt", entries |-> <<>>]
    /\ snapshot' = IF gitLost THEN NoSnapshot ELSE snapshot
    /\ UNCHANGED <<probe, tasks, nextTaskId, overviews, nextFeatureId, needs_respec, cycle>>

RecoverGit ==
    /\ ~Healthy
    /\ snapshot.exists
    /\ tracker' = [status |-> "healthy", entries |-> snapshot.entries]
    /\ UNCHANGED <<probe, tasks, nextTaskId, snapshot, overviews, nextFeatureId, needs_respec, cycle>>

WasDispatched(task) ==
    \/ task.state \in {"EXECUTING", "VERIFIED"}
    \/ task.state = "BLOCKED" /\ task.blocked_reason.stage = "EXECUTING"

\* RebuildEntry that lists the tasks but does not read their assertion results.
RebuildEntryTasksOnly(ts, ids) ==
    [phase |-> IF \E t \in SeqSet(ids) : WasDispatched(ts[t]) THEN "ACTIVE" ELSE "DRAFT",
     tasks |-> ids, verified |-> FALSE]

RebuildEntry(ts, ids) ==
    LET listed == [phase |-> IF \E t \in SeqSet(ids) : WasDispatched(ts[t])
                             THEN "ACTIVE" ELSE "DRAFT",
                   tasks |-> ids, verified |-> FALSE]
    IN IF ids = <<>> THEN listed ELSE Recompute(ts, listed)

\* RecoverRebuild taken although the last committed version is available.
RecoverRebuildFirst ==
    /\ ~Healthy
    /\ tracker' = [status |-> "healthy",
                   entries |-> [f \in DOMAIN overviews |-> RebuildEntry(tasks, overviews[f])]]
    /\ UNCHANGED <<probe, tasks, nextTaskId, snapshot, overviews, nextFeatureId, needs_respec, cycle>>

RecoverRebuild ==
    /\ ~Healthy
    /\ ~snapshot.exists
    /\ tracker' = [status |-> "healthy",
                   entries |-> [f \in DOMAIN overviews |-> RebuildEntry(tasks, overviews[f])]]
    /\ UNCHANGED <<probe, tasks, nextTaskId, snapshot, overviews, nextFeatureId, needs_respec, cycle>>

\* RecoverFresh starting the task list afresh as well.
RecoverFreshAll ==
    /\ ~Healthy
    /\ tracker' = [status |-> "healthy", entries |-> <<>>]
    /\ snapshot' = NoSnapshot
    /\ tasks' = <<>>
    /\ UNCHANGED <<probe, nextTaskId, overviews, nextFeatureId, needs_respec, cycle>>

RecoverFresh ==
    /\ ~Healthy
    /\ tracker' = [status |-> "healthy", entries |-> <<>>]
    /\ snapshot' = NoSnapshot
    /\ UNCHANGED <<probe, tasks, nextTaskId, overviews, nextFeatureId, needs_respec, cycle>>

(***************************************************************************)
(* Specifications.                                                         *)
(***************************************************************************)
Tiers == {"SIMPLE", "MODERATE"}

PacketPool == {GoodPacket, VaguePacket}

ReportPool == {<<PassLine("A1")>>, <<PassLine("A2")>>, <<PassLine("A1"), PassLine("A2")>>,
               <<PassLine("A1"), FailLine("A2")>>}

ModifiedPool == {{"a.txt"}, {"a.txt", "b.txt"}}

AllVerdicts == {"APPROVED", "NEEDS_CHANGES", "SKIPPED", "NONE"}

TrackerNext ==
    \/ CommitTracker
    \/ \E g \in BOOLEAN : CorruptTracker(g)
    \/ RecoverGit
    \/ RecoverRebuild
    \/ RecoverFresh

TaskNext(maxTasks, tiers, packets, reports, modifieds, verdicts) ==
    \/ CreateFeature
    \/ \E f \in (DOMAIN overviews) \cup {NoFeature}, tier \in tiers, p \in packets :
          CreateTask(maxTasks, f, tier, p)
    \/ \E t \in TaskIds, p \in packets : PlannerRevise(t, p)
    \/ \E t \in TaskIds : LintDraft(t)
    \/ \E t \in TaskIds, v \in {"APPROVED", "NEEDS_CHANGES"} : SpecReview(t, v)
    \/ \E t \in TaskIds : Dispatch(t)
    \/ \E t \in TaskIds, r \in reports, m \in modifieds, v \in verdicts :
          VerifyCycle(t, r, m, v)

Next == TaskNext(MaxTasks, Tiers, PacketPool, ReportPool, ModifiedPool, AllVerdicts)

Spec == Init /\ [][Next]_vars

FeatureTiers == {"MODERATE"}

FeaturePackets == {SmallPacket, VaguePacket}

FeatureReports == {<<PassLine("A1")>>}

FeatureModified == {{"b.txt"}}

FeatureVerdicts == {"APPROVED", "NONE"}

RespecPlans == {<<>>, <<[tier |-> "MODERATE", packet |-> SmallPacket]>>}

NextFeature ==
    \/ TaskNext(MaxFeatureTasks, FeatureTiers, FeaturePackets, FeatureReports,
                FeatureModified, FeatureVerdicts)
    \/ \E f \in DOMAIN overviews, plan \in RespecPlans : ReSpec(MaxFeatureTasks, f, plan)

SpecFeature == Init /\ [][NextFeature]_vars

NextRecovery ==
    \/ TaskNext(MaxRecoveryTasks, FeatureTiers, FeaturePackets, FeatureReports,
                FeatureModified, FeatureVerdicts)
    \/ TrackerNext

SpecRecovery == Init /\ [][NextRecovery]_vars

(***************************************************************************)
(* One feature large enough to stall with a task to spare, its tasks taken *)
(* up to dispatch, with the tracker lost (git history included) and        *)
(* rebuilt from the overviews at any moment.                               *)
(***************************************************************************)
MaxStallTasks == StallThreshold + 1

NextStall ==
    \/ CreateFeature
    \/ \E f \in DOMAIN overviews, p \in FeaturePackets :
          CreateTask(MaxStallTasks, f, "MODERATE", p)
    \/ \E t \in TaskIds : LintDraft(t)
    \/ \E t \in TaskIds : SpecReview(t, "APPROVED")
    \/ \E t \in TaskIds : Dispatch(t)
    \/ \E f \in DOMAIN overviews : ReSpec(MaxStallTasks, f, <<>>)
    \/ CorruptTracker(TRUE)
    \/ RecoverRebuild

SpecStall == Init /\ [][NextStall]_vars

(***************************************************************************)
(* Task ids: creations, lint failures that stall a feature, re-specs that  *)
(* replace its BLOCKED tasks, and every tracker fault and recovery.        *)
(***************************************************************************)
NextIds ==
    \/ CreateFeature
    \/ \E f \in DOMAIN overviews : CreateTask(MaxStallTasks, f, "MODERATE", VaguePacket)
    \/ \E t \in TaskIds : LintDraft(t)
    \/ \E f \in DOMAIN overviews, plan \in RespecPlans : ReSpec(MaxStallTasks, f, plan)
    \/ TrackerNext

SpecIds == Init /\ [][NextIds]_vars

(***************************************************************************)
(* The recomputation of a tracker entry on its own, run once and run again *)
(* on its own result, over every assignment of task states and evidence.   *)
(***************************************************************************)
MaxProbeTasks == 2

ProbeTaskShapes ==
    {[NewTask("MODERATE", SmallPacket) EXCEPT !.state = st, !.evidence = ev] :
        st \in States,
        ev \in {NoEvidence, [id \in {"A1"} |-> PassLine(id)], [id \in {"A1"} |-> FailLine(id)]}}

ProbeEntries(n) ==
    {[phase |-> ph, tasks |-> [i \in 1..k |-> i], verified |-> v] :
        ph \in {"DRAFT", "ACTIVE", "DONE"}, k \in 0..n, v \in BOOLEAN}

ProbeRecompute(ts, e) ==
    /\ probe = NoProbe
    /\ probe' = [ts |-> ts, entry |-> e, once |-> Recompute(ts, e),
                 twice |-> Recompute(ts, Recompute(ts, e))]
    /\ UNCHANGED <<tasks, nextTaskId, tracker, snapshot, overviews, nextFeatureId,
                   needs_respec, cycle>>

NextRecompute ==
    /\ probe = NoProbe
    /\ \E n \in 0..MaxProbeTasks :
          \E ts \in [1..n -> ProbeTaskShapes], e \in ProbeEntries(n) : ProbeRecompute(ts, e)

SpecRecompute == Init /\ [][NextRecompute]_vars

(***************************************************************************)
(* Tasks of one feature with disjoint file scopes, so that they execute    *)
(* at the same time and their cycles interleave.                           *)
(***************************************************************************)
MaxPairTasks == 2

PairPackets == {GoodPacket, SmallPacket}

PairReports == {<<PassLine("A1")>>, <<PassLine("A1"), PassLine("A2")>>}

PairModified == {{"a.txt"}, {"b.txt"}}

NextPair ==
    TaskNext(MaxPairTasks, FeatureTiers, PairPackets, PairReports, PairModified, FeatureVerdicts)

SpecPair == Init /\ [][NextPair]_vars

(***************************************************************************)
(* The gate pipeline on its own, over packets, evidence and modified-file  *)
(* sets that no lifecycle state restricts.                                 *)
(***************************************************************************)
ProbeIds == {"A1", "A2"}

ProbeAssertions ==
    {<<>>} \cup {<<a>> : a \in {MustA("A1"), VagueA("A1")}}
           \cup {<<MustA("A1"), a>> : a \in {MustA("A2"), VagueA("A2")}}

ProbePackets ==
    {[Packet(as, {"a.txt"}) EXCEPT !.delimiters = d, !.yaml = y] :
        as \in ProbeAssertions,
        d \in BOOLEAN, y \in BOOLEAN}

ProbeLines(id) ==
    {PassLine(id), FailLine(id), Ev(id, "FAIL", TRUE, FALSE), Ev(id, "PASS", FALSE, FALSE),
     Ev(id, "none", TRUE, FALSE)}

ProbeEvidence ==
    UNION {{ev \in [ids -> UNION {ProbeLines(id) : id \in ids}] :
               \A id \in ids : ev[id].assertion_id = id} : ids \in SUBSET ProbeIds}

ProbeGates(p, ev, m) ==
    /\ probe = NoProbe
    /\ probe' = [packet |-> p, evidence |-> ev, modified |-> m, results |-> RunGates(p, ev, m)]
    /\ UNCHANGED <<tasks, nextTaskId, tracker, snapshot, overviews, nextFeatureId,
                   needs_respec, cycle>>

NextGates == \E p \in ProbePackets, ev \in ProbeEvidence, m \in SUBSET Files : ProbeGates(p, ev, m)

SpecGates == Init /\ [][NextGates]_vars

(***************************************************************************)
(* Evidence on its own: two reports submitted one after the other for a    *)
(* task that already holds records, with ids repeated in and across them.  *)
(***************************************************************************)
MaxReportLines == 2

ReportLines == UNION {{PassLine(id), FailLine(id)} : id \in ProbeIds}

Reports == UNION {[1..n -> ReportLines] : n \in 0..MaxReportLines}

ProbeSubmit(old, first, second) ==
    /\ probe' = [held |-> old, first |-> first, second |-> second,
                 stored |-> MergeEvidence(MergeEvidence(old, first), second)]
    /\ UNCHANGED <<tasks, nextTaskId, tracker, snapshot, overviews, nextFeatureId,
                   needs_respec, cycle>>

NextSubmit ==
    /\ probe = NoProbe
    /\ \E old \in ProbeEvidence, first \in Reports, second \in Reports :
          ProbeSubmit(old, first, second)

SpecEvidence == Init /\ [][NextSubmit]_vars

(***************************************************************************)
(* Packet parsing: packets that parse, packets whose YAML is broken with   *)
(* and without the required fields, and packets without delimiters; the    *)
(* planner may resubmit between the lint runs.                             *)
(***************************************************************************)
MaxParseTasks == 2

ParsePackets ==
    {GoodPacket, MalformedPacket, VaguePacket,
     [MalformedPacket EXCEPT !.fields = @ \ {"intent"}],
     [MalformedPacket EXCEPT !.fields = {}],
     [MalformedPacket EXCEPT !.delimiters = FALSE],
     Packet(<<>>, {"a.txt"})}

NextParse ==
    \/ \E p \in ParsePackets : CreateTask(MaxParseTasks, NoFeature, "SIMPLE", p)
    \/ \E t \in TaskIds, p \in ParsePackets : PlannerRevise(t, p)
    \/ \E t \in TaskIds : LintDraft(t)
    \/ \E t \in TaskIds : Dispatch(t)
    \/ \E t \in TaskIds, r \in {<<>>, <<PassLine("A1")>>} :
          VerifyCycle(t, r, {"a.txt"}, "SKIPPED")

SpecParse == Init /\ [][NextParse]_vars

(***************************************************************************)
(* The health check service (src/app.js, routes/health.js) on its own.     *)
(* probe holds the system clock in milliseconds and the log of requests    *)
(* answered, each with the clock reading at which it was handled.  The      *)
(* clock advances between requests or stands still; it is taken not to be  *)
(* set back.  A request is handled in one step: the middleware and the     *)
(* handler are synchronous.                                                *)
(***************************************************************************)
MaxRequests == 3

MaxTicks == 3

ClockValues == {998 + i : i \in 0..MaxTicks}

\* A request by method, path and body (sent as application/json): no body, a
\* JSON document, or text that is not JSON.
Requests ==
    {[method |-> "GET", path |-> "/health", body |-> "none"],
     [method |-> "GET", path |-> "/health", body |-> "json"],
     [method |-> "GET", path |-> "/health", body |-> "malformed"],
     [method |-> "POST", path |-> "/health", body |-> "none"],
     [method |-> "GET", path |-> "/other", body |-> "none"]}

\* Date.prototype.toISOString: seconds and milliseconds written apart.
ToISOString(ms) == [seconds |-> ms \div 1000, millis |-> ms % 1000]

\* new Date(string).getTime()
GetTime(iso) == iso.seconds * 1000 + iso.millis

\* HealthRoute answering with the time the router was loaded.
HealthRouteCached(now) ==
    [code |-> 200, body |-> [status |-> "ok", timestamp |-> ToISOString(998)]]

HealthRoute(now) ==
    [code |-> 200, body |-> [status |-> "ok", timestamp |-> ToISOString(now)]]

\* express.json() is mounted before the router: it reads the body of every
\* request that has one, whatever the method, and answers 400 itself when
\* the body does not parse.
App(req, now) ==
    IF req.body = "malformed" THEN [code |-> 400, body |-> <<>>]
    ELSE IF req.method = "GET" /\ req.path = "/health" THEN HealthRoute(now)
    ELSE [code |-> 404, body |-> <<>>]

InitHealth ==
    /\ tasks = <<>>
    /\ nextTaskId = 1
    /\ tracker = [status |-> "healthy", entries |-> <<>>]
    /\ snapshot = NoSnapshot
    /\ overviews = <<>>
    /\ nextFeatureId = 1
    /\ needs_respec = {}
    /\ cycle = NoCycle
    /\ probe = [clock |-> 998, log |-> <<>>]

Tick(c) ==
    /\ c > probe.clock
    /\ probe' = [probe EXCEPT !.clock = c]
    /\ UNCHANGED <<tasks, nextTaskId, tracker, snapshot, overviews, nextFeatureId,
                   needs_respec, cycle>>

Request(req) ==
    /\ Len(probe.log) < MaxRequests
    /\ probe' = [probe EXCEPT !.log = Append(@, [req |-> req, at |-> probe.clock,
                                                  res |-> App(req, probe.clock)])]
    /\ UNCHANGED <<tasks, nextTaskId, tracker, snapshot, overviews, nextFeatureId,
                   needs_respec, cycle>>

NextHealth ==
    \/ \E c \in ClockValues : Tick(c)
    \/ \E req \in Requests : Request(req)

SpecHealth == InitHealth /\ [][NextHealth]_vars

(***************************************************************************)
(* Gate 1 on its own, over packets of every shape the planner can write.   *)
(***************************************************************************)
LintShapes(id) ==
    {MustA(id), VagueA(id),
     Assertion(id, Txt(<<"MUST">>, TRUE, TRUE), Txt(<<"MUST NOT">>, FALSE, TRUE)),
     Assertion(id, Txt(<<"MUST">>, TRUE, FALSE), Txt(<<"MUST NOT">>, FALSE, TRUE)),
     Assertion(id, Txt(<<"MUST">>, FALSE, TRUE), Txt(<<"MUST NOT">>, TRUE, FALSE)),
     Assertion(id, Txt(<<"MUST", "SHOULD">>, FALSE, TRUE), Txt(<<"MUST NOT">>, FALSE, TRUE)),
     Assertion(id, Txt(<<"SHOULD">>, FALSE, TRUE), Txt(<<"SHOULD NOT">>, FALSE, TRUE)),
     Assertion(id, Txt(<<"MUST">>, FALSE, TRUE), Txt(<<"MUST">>, FALSE, TRUE)),
     Assertion(id, Txt(<<"MAY">>, FALSE, TRUE), Txt(<<"MUST NOT">>, FALSE, TRUE)),
     [MustA(id) EXCEPT !.fields = {"id", "positive"}]}

LongIds == <<"A1", "A2", "A3", "A4", "A5", "A6", "A7", "A8">>

LintAssertions ==
    {<<>>} \cup {<<a>> : a \in LintShapes("A1")}
           \cup {<<a, b>> : a \in LintShapes("A1"), b \in LintShapes("A2")}
           \cup {[i \in 1..n |-> MustA(LongIds[i])] : n \in {Len(LongIds) - 1, Len(LongIds)}}

LintPackets ==
    {[Packet(as, {"a.txt"}) EXCEPT !.delimiters = d, !.yaml = y, !.fields = fs] :
        as \in LintAssertions, d \in BOOLEAN, y \in BOOLEAN,
        fs \in {RequiredFields, RequiredFields \ {"constraints"}}}

ProbeLint(p) ==
    /\ probe = NoProbe
    /\ probe' = [packet |-> p, evidence |-> <<>>, modified |-> {}, results |-> <<SpecLint(p)>>]
    /\ UNCHANGED <<tasks, nextTaskId, tracker, snapshot, overviews, nextFeatureId,
                   needs_respec, cycle>>

NextLint == \E p \in LintPackets : ProbeLint(p)

SpecLintGate == Init /\ [][NextLint]_vars

(***************************************************************************)
(* Gate 3 on its own, over every file scope and every set of modified      *)
(* files.                                                                  *)
(***************************************************************************)
ScopeFiles == {"a.txt", "b.txt", "c.txt", "d.txt"}

ProbeScope(scope, m) ==
    /\ probe = NoProbe
    /\ LET p == Packet(<<MustA("A1")>>, scope) IN
       probe' = [packet |-> p, evidence |-> <<>>, modified |-> m,
                 results |-> <<FileScopeAudit(p, m)>>]
    /\ UNCHANGED <<tasks, nextTaskId, tracker, snapshot, overviews, nextFeatureId,
                   needs_respec, cycle>>

NextScope == \E scope \in SUBSET ScopeFiles, m \in SUBSET ScopeFiles : ProbeScope(scope, m)

SpecScopeGate == Init /\ [][NextScope]_vars

(***************************************************************************)
(* Section 6: the tier classifier.  Each signal is looked up in its row of *)
(* the decision table and conflicting signals classify UP.  The rows of    *)
(* risk, novelty and coupling have one column per level; the columns of    *)
(* "Files touched" overlap (1 | 1-2 | 2-5 | 5+), and the table does not    *)
(* say which column a count in two of them belongs to, so each             *)
(* classification takes one of the columns that admit the count.           *)
(***************************************************************************)
MaxFiles == 6

TierOrder == <<"TRIVIAL", "SIMPLE", "MODERATE", "COMPLEX">>

RiskLevels == <<"None", "Low", "Medium", "High">>
NoveltyLevels == <<"Zero", "Low", "Medium", "High">>
CouplingLevels == <<"Isolated", "Minimal", "Some cross-file", "Multi-component">>

Index(seq, x) == CHOOSE i \in 1..Len(seq) : seq[i] = x

Rank(tier) == Index(TierOrder, tier)

LevelBand(levels, x) == TierOrder[Index(levels, x)]

FilesBands(n, cross) ==
    IF cross THEN {"COMPLEX"}
    ELSE (IF n = 1 THEN {"TRIVIAL"} ELSE {})
         \cup (IF n \in 1..2 THEN {"SIMPLE"} ELSE {})
         \cup (IF n \in 2..5 THEN {"MODERATE"} ELSE {})
         \cup (IF n >= 5 THEN {"COMPLEX"} ELSE {})

Signals ==
    [files : 1..MaxFiles, cross : BOOLEAN, risk : {RiskLevels[i] : i \in 1..4},
     novelty : {NoveltyLevels[i] : i \in 1..4}, coupling : {CouplingLevels[i] : i \in 1..4}]

MaxRank(ranks) == CHOOSE r \in ranks : \A q \in ranks : q <= r

\* The tier of signal vector v when its file count is read as column band.
Classify(v, band) ==
    TierOrder[MaxRank({Rank(band), Rank(LevelBand(RiskLevels, v.risk)),
                       Rank(LevelBand(NoveltyLevels, v.novelty)),
                       Rank(LevelBand(CouplingLevels, v.coupling))})]

\* Severity of the files signal: a higher count, or crossing a boundary.
FilesRaised(v, w) ==
    \/ w.cross = v.cross /\ w.files > v.files
    \/ w.files = v.files /\ w.cross /\ ~v.cross

\* w is v with exactly one signal at a higher severity.
Raised(v, w) ==
    \/ /\ FilesRaised(v, w)
       /\ w.risk = v.risk /\ w.novelty = v.novelty /\ w.coupling = v.coupling
    \/ /\ Index(RiskLevels, w.risk) > Index(RiskLevels, v.risk)
       /\ w.files = v.files /\ w.cross = v.cross
       /\ w.novelty = v.novelty /\ w.coupling = v.coupling
    \/ /\ Index(NoveltyLevels, w.novelty) > Index(NoveltyLevels, v.novelty)
       /\ w.files = v.files /\ w.cross = v.cross
       /\ w.risk = v.risk /\ w.coupling = v.coupling
    \/ /\ Index(CouplingLevels, w.coupling) > Index(CouplingLevels, v.coupling)
       /\ w.files = v.files /\ w.cross = v.cross
       /\ w.risk = v.risk /\ w.novelty = v.novelty

\* Two classifications by the dispatch loop: of the same vector, or of a
\* vector and the same vector with one signal raised.
ProbeClassify(v, b, w, c) ==
    /\ probe = NoProbe
    /\ w = v \/ Raised(v, w)
    /\ b \in FilesBands(v.files, v.cross)
    /\ c \in FilesBands(w.files, w.cross)
    /\ probe' = [first |-> [signals |-> v, tier |-> Classify(v, b)],
                 second |-> [signals |-> w, tier |-> Classify(w, c)]]
    /\ UNCHANGED <<tasks, nextTaskId, tracker, snapshot, overviews, nextFeatureId,
                   needs_respec, cycle>>

NextClassify ==
    /\ probe = NoProbe
    /\ \E v \in Signals, w \in Signals :
          \E b \in FilesBands(v.files, v.cross), c \in FilesBands(w.files, w.cross) :
              ProbeClassify(v, b, w, c)

SpecClassify == Init /\ [][NextClassify]_vars

(***************************************************************************)
(* Properties of the verification cycle and the gate pipeline.             *)
(***************************************************************************)
GateOrder == <<"Spec Lint", "Assertion Audit", "File Scope Audit">>

\* The gate results run from Gate 1 in order and stop at the first failure.
FromLintInOrder(gates) ==
    /\ Len(gates) \in 1..3
    /\ \A i \in 1..Len(gates) :
          /\ gates[i].gate = GateOrder[i]
          /\ i < Len(gates) => gates[i].passed
    /\ Len(gates) < 3 => ~gates[Len(gates)].passed

CycleFailed == ~cycle.gates[Len(cycle.gates)].passed

PassForEveryId(task) ==
    \A id \in AssertionIds(task.packet) :
        id \in DOMAIN task.evidence /\ task.evidence[id].result = "PASS"

\* C1: a task moves from EXECUTING to VERIFIED only in a verification cycle in
\* which Lint, Assertion Audit and File Scope all pass and which leaves a PASS
\* record for every assertion id of the packet; a cycle that leaves an id
\* without a record, or with a FAIL record, does not end in VERIFIED.
C1_VerifiedOnlyByFullPass ==
    [][\A t \in TaskIds :
          /\ (tasks[t].state = "EXECUTING" /\ tasks'[t].state = "VERIFIED") =>
                /\ cycle'.task = t /\ cycle'.kind = "verify"
                /\ Len(cycle'.gates) = 3
                /\ \A i \in 1..3 : cycle'.gates[i].gate = GateOrder[i] /\ cycle'.gates[i].passed
                /\ PassForEveryId(tasks'[t])
          /\ (/\ tasks[t].state = "EXECUTING"
              /\ \E id \in AssertionIds(tasks'[t].packet) :
                    \/ id \notin DOMAIN tasks'[t].evidence
                    \/ tasks'[t].evidence[id].result = "FAIL")
                => tasks'[t].state # "VERIFIED"]_vars

\* A task verified by a cycle that followed at least one failed review cycle.
C1_Witness ==
    \E t \in TaskIds :
        /\ tasks[t].state = "VERIFIED" /\ tasks[t].review_cycles >= 1
        /\ cycle.task = t /\ cycle.kind = "verify" /\ Len(cycle.gates) = 3

\* C2 (as stated): a task is VERIFIED if and only if it has PASS evidence for
\* every assertion id of its packet.
C2_VerifiedIffAllPass ==
    \A t \in TaskIds : tasks[t].state = "VERIFIED" <=> PassForEveryId(tasks[t])

\* C2 (amended): a VERIFIED task has PASS evidence for every assertion id of
\* its packet, with no id missing.
C2_VerifiedImpliesAllPass ==
    \A t \in TaskIds : tasks[t].state = "VERIFIED" => PassForEveryId(tasks[t])

C2_Witness ==
    \E t \in TaskIds :
        /\ tasks[t].state = "VERIFIED"
        /\ Len(tasks[t].packet.assertions) = 2
        /\ DOMAIN tasks[t].evidence = {"A1", "A2"}

\* C3 (as stated): a task's state only advances one step along
\* DRAFT, LINT_PASS, RATIFIED, EXECUTING, VERIFIED, or branches to BLOCKED.
ChainStep(s, s2) ==
    \/ s = "DRAFT" /\ s2 = "LINT_PASS"
    \/ s = "LINT_PASS" /\ s2 = "RATIFIED"
    \/ s = "RATIFIED" /\ s2 = "EXECUTING"
    \/ s = "EXECUTING" /\ s2 = "VERIFIED"

C3_StrictChain ==
    [][\A t \in TaskIds :
          tasks'[t].state # tasks[t].state =>
              ChainStep(tasks[t].state, tasks'[t].state) \/ tasks'[t].state = "BLOCKED"]_vars

\* C3 (amended): a task starts in DRAFT and its state changes only by one step
\* of the chain, by the SIMPLE tier's dispatch from LINT_PASS (SIMPLE has no
\* RATIFIED state), by a spec review's NEEDS_CHANGES returning LINT_PASS to
\* DRAFT, or to BLOCKED from DRAFT or EXECUTING.  LINT_PASS is entered only by
\* a lint cycle whose packet passes Gate 1, RATIFIED only by MODERATE and
\* COMPLEX tasks, VERIFIED only by a verification cycle.
TierStep(tier, s, s2) ==
    \/ s = "DRAFT" /\ s2 = "LINT_PASS"
    \/ s = "LINT_PASS" /\ s2 = "RATIFIED" /\ tier # "SIMPLE"
    \/ s = "RATIFIED" /\ s2 = "EXECUTING" /\ tier # "SIMPLE"
    \/ s = "LINT_PASS" /\ s2 = "EXECUTING" /\ tier = "SIMPLE"
    \/ s = "EXECUTING" /\ s2 = "VERIFIED"
    \/ s = "LINT_PASS" /\ s2 = "DRAFT" /\ tier # "SIMPLE"
    \/ s \in {"DRAFT", "EXECUTING"} /\ s2 = "BLOCKED"

C3_LifecycleSteps ==
    [][/\ \A t \in DOMAIN tasks' \ TaskIds : tasks'[t].state = "DRAFT"
       /\ \A t \in TaskIds :
             tasks'[t].state # tasks[t].state =>
                /\ TierStep(tasks[t].tier, tasks[t].state, tasks'[t].state)
                /\ tasks'[t].state = "LINT_PASS" =>
                      /\ cycle'.task = t /\ cycle'.kind = "lint"
                      /\ LintViolations(tasks'[t].packet) = {}
                /\ tasks'[t].state = "VERIFIED" =>
                      cycle'.task = t /\ cycle'.kind = "verify"]_vars

\* A MODERATE task that went through every state of the chain.
C3_Witness ==
    \E t \in TaskIds : tasks[t].tier = "MODERATE" /\ tasks[t].state = "VERIFIED"

\* C4: within one gate run the results are those of Lint, then Assertion Audit,
\* then File Scope, and a failed gate is the last one to report: a packet that
\* fails Lint gets one result, an audit failure gets two.
C4_GatesInOrderStopAtFailure ==
    probe # NoProbe =>
        /\ FromLintInOrder(probe.results)
        /\ LintViolations(probe.packet) # {} => Len(probe.results) = 1
        /\ (LintViolations(probe.packet) = {} /\ AuditViolations(probe.packet, probe.evidence) # {})
              => Len(probe.results) = 2

\* Lint fails on a run whose evidence and modified files the later gates
\* would have rejected too.
C4_Witness ==
    /\ probe # NoProbe
    /\ Len(probe.results) = 1 /\ ~probe.results[1].passed
    /\ AuditViolations(probe.packet, probe.evidence) # {}
    /\ probe.modified \ probe.packet.file_scope # {}

\* C5: a first gate failure leaves the task EXECUTING with one retry pending,
\* and the retry cycle, like every cycle, reports the gates from Lint onward
\* whichever gate failed before; after the retry cycle no retry is pending
\* unless the task is BLOCKED.
C5_OneRetryFromLint ==
    cycle.kind = "verify" =>
        /\ FromLintInOrder(cycle.gates)
        /\ (cycle.retry_of = "none" /\ CycleFailed) =>
              /\ tasks[cycle.task].state = "EXECUTING"
              /\ tasks[cycle.task].gate_feedback = cycle.gates[Len(cycle.gates)].gate
        /\ cycle.retry_of # "none" =>
              \/ tasks[cycle.task].state = "BLOCKED"
              \/ tasks[cycle.task].gate_feedback = "none"

\* The retry after a File Scope failure ran Lint and the audit again.
C5_Witness ==
    /\ cycle.kind = "verify" /\ cycle.retry_of = "File Scope Audit"
    /\ Len(cycle.gates) = 3 /\ cycle.gates[1].gate = "Spec Lint"

C7_RedOnlyWhenBothExhausted ==
    \A t \in TaskIds :
        (tasks[t].state = "BLOCKED" /\ tasks[t].blocked_reason.stage = "EXECUTING") =>
            /\ tasks[t].gate_feedback # "none"
            /\ tasks[t].review_cycles = MaxReviewCycles

\* C8: the third Orange cycle of a task leaves it BLOCKED (no task has spent
\* its three review cycles and is in another state), and no step changes
\* anything of a BLOCKED task.
C8_ThreeFailuresBlockForGood ==
    [][\A t \in TaskIds :
          /\ tasks'[t].review_cycles <= MaxReviewCycles
          /\ tasks'[t].review_cycles = MaxReviewCycles => tasks'[t].state = "BLOCKED"
          /\ (tasks'[t].review_cycles > tasks[t].review_cycles
                 /\ tasks'[t].review_cycles < MaxReviewCycles) =>
                /\ tasks'[t].state = "EXECUTING"
                /\ cycle'.level = "Orange"
          /\ tasks[t].state = "BLOCKED" => tasks'[t] = tasks[t]]_vars

\* The circuit breaker has blocked a task on its third failed cycle.
C8_Witness ==
    \E t \in TaskIds :
        /\ tasks[t].state = "BLOCKED" /\ tasks[t].review_cycles = MaxReviewCycles
        /\ tasks[t].blocked_reason.gate = "Agent Review"
        /\ cycle.task = t /\ cycle.level = "Red"

Frozen(task) ==
    \/ task.state \in {"RATIFIED", "EXECUTING", "VERIFIED"}
    \/ task.state = "BLOCKED" /\ task.blocked_reason.stage = "EXECUTING"

C10_PacketFrozenFromRatified ==
    [][/\ \A t \in TaskIds :
             Frozen(tasks[t]) => Frozen(tasks'[t]) /\ tasks'[t].packet = tasks[t].packet
       /\ TaskIds \subseteq DOMAIN tasks'
       /\ \A t \in DOMAIN tasks' \ TaskIds :
             /\ nextTaskId <= t /\ t < nextTaskId'
             /\ tasks'[t].state = "DRAFT"]_vars

\* A new task with a different packet sits beside a frozen task of its feature.
C10_Witness ==
    \E t, u \in TaskIds :
        /\ Frozen(tasks[t]) /\ t < u
        /\ tasks[u].packet # tasks[t].packet
        /\ FeatureOf(tracker, t) # NoFeature /\ FeatureOf(tracker, t) = FeatureOf(tracker, u)

(***************************************************************************)
(* Properties of the single gates and of the tier classifier.              *)
(***************************************************************************)
\* The wording condition on one assertion: one keyword in each field, the
\* negative one the opposite of the positive one, and no vague term without
\* an observable.
WellWorded(a) ==
    /\ Len(a.positive.keywords) = 1 /\ Len(a.negative.keywords) = 1
    /\ \/ a.positive.keywords[1] = "MUST" /\ a.negative.keywords[1] = "MUST NOT"
       \/ a.positive.keywords[1] = "MUST NOT" /\ a.negative.keywords[1] = "MUST"
       \/ a.positive.keywords[1] = "SHOULD" /\ a.negative.keywords[1] = "SHOULD NOT"
    /\ ~(a.positive.vague /\ ~a.positive.observable)
    /\ ~(a.negative.vague /\ ~a.negative.observable)

AllWellWorded(p) == \A i \in 1..Len(p.assertions) : WellWorded(p.assertions[i])

WellFormed(p) ==
    /\ p.delimiters /\ p.yaml /\ RequiredFields \subseteq p.fields
    /\ \A i \in 1..Len(p.assertions) : AssertionFields \subseteq p.assertions[i].fields
    /\ Len(p.assertions) <= MaxAssertions

\* C11 (as stated): Gate 1 passes a packet if and only if every assertion is
\* worded with one opposite keyword pair and no vague term without observable.
C11_LintIffWellWorded ==
    probe # NoProbe => (probe.results[1].passed <=> AllWellWorded(probe.packet))

\* C11 (amended): Gate 1 passes a packet if and only if the packet is well
\* formed (delimiters, YAML, required fields, assertion fields, at most 7
\* assertions) and every assertion is worded so; and a well-formed packet with
\* a vague positive text without observable fails with a Quality gate
\* violation naming that assertion.
C11_LintIffFormedAndWorded ==
    probe # NoProbe =>
        /\ probe.results[1].gate = "Spec Lint"
        /\ probe.results[1].passed <=> (WellFormed(probe.packet) /\ AllWellWorded(probe.packet))
        /\ \A i \in 1..Len(probe.packet.assertions) :
              LET a == probe.packet.assertions[i] IN
              (WellFormed(probe.packet) /\ a.positive.vague /\ ~a.positive.observable) =>
                  V("Quality gate", a.id) \in probe.results[1].violations

\* "Authentication works correctly": Gate 1 fails with the vague-term violation.
C11_Witness ==
    /\ probe # NoProbe
    /\ probe.packet = VaguePacket
    /\ ~probe.results[1].passed
    /\ V("Quality gate", "A1") \in probe.results[1].violations

\* C12: Gate 3 passes exactly when every modified file is in file_scope; its
\* violations name exactly the modified files outside the scope; the scope
\* files left untouched appear as warnings only and never fail the gate.
C12_ScopeGateIffSubset ==
    probe # NoProbe =>
        LET r == probe.results[1]
            M == probe.modified
            S == probe.packet.file_scope
        IN /\ r.gate = "File Scope Audit"
           /\ r.passed <=> M \subseteq S
           /\ {v.subject : v \in r.violations} = M \ S
           /\ {v.subject : v \in r.warnings} = S \ M
           /\ \A v \in r.violations : v.check = "No out-of-scope modifications"
           /\ \A v \in r.warnings : v.check = "Completeness warning"

\* file_scope [a.txt], a.txt and b.txt modified: the gate fails citing b.txt.
C12_Witness ==
    /\ probe # NoProbe
    /\ probe.packet.file_scope = {"a.txt"} /\ probe.modified = {"a.txt", "b.txt"}
    /\ ~probe.results[1].passed
    /\ probe.results[1].violations = {V("No out-of-scope modifications", "b.txt")}

Classified == "first" \in DOMAIN probe

\* C13: the classifier returns one of the four tiers, at least the band of
\* each of risk, novelty and coupling, and two classifications of the same
\* signal vector return the same tier, also at the file counts 1, 2 and 5.
C13_ClassifierDeterministic ==
    Classified =>
        /\ probe.first.tier \in {TierOrder[i] : i \in 1..4}
        /\ Rank(probe.first.tier) >= Index(RiskLevels, probe.first.signals.risk)
        /\ Rank(probe.first.tier) >= Index(NoveltyLevels, probe.first.signals.novelty)
        /\ Rank(probe.first.tier) >= Index(CouplingLevels, probe.first.signals.coupling)
        /\ probe.first.signals = probe.second.signals => probe.first.tier = probe.second.tier

\* C14: when the second vector is the first with one signal at a higher
\* severity, the second tier is not below the first.
C14_ClassifierMonotonic ==
    (Classified /\ Raised(probe.first.signals, probe.second.signals)) =>
        Rank(probe.second.tier) >= Rank(probe.first.tier)

(***************************************************************************)
(* Properties of the feature tracker: stall detection, recomputation,      *)
(* recovery and degraded mode.                                             *)
(***************************************************************************)
\* The feature whose overview lists task t.
OverviewOf(t) ==
    IF \E f \in DOMAIN overviews : t \in SeqSet(overviews[f])
    THEN CHOOSE f \in DOMAIN overviews : t \in SeqSet(overviews[f])
    ELSE NoFeature

Dispatched(t) == tasks[t].state # "EXECUTING" /\ tasks'[t].state = "EXECUTING"

\* C15 (as stated): whenever 3 tasks of a feature are BLOCKED the feature is
\* flagged NEEDS_RESPEC, and no task of a flagged feature is dispatched.
C15_StallAlwaysFlagsAndHalts ==
    [][/\ \A f \in DOMAIN overviews' :
             BlockedCount(tasks', overviews'[f]) >= StallThreshold => f \in needs_respec'
       /\ \A t \in TaskIds : Dispatched(t) => OverviewOf(t) \notin needs_respec]_vars

\* C15 (amended): with a healthy tracker, a task that becomes BLOCKED and
\* brings the BLOCKED tasks of its feature to 3 or more flags the feature
\* NEEDS_RESPEC, and with a healthy tracker no task of a flagged feature is
\* dispatched until the re-spec has cleared the flag.
C15_StallFlagsAndHaltsWhenHealthy ==
    [][\A t \in TaskIds :
          /\ (/\ Healthy
              /\ tasks[t].state # "BLOCKED" /\ tasks'[t].state = "BLOCKED"
              /\ FeatureOf(tracker, t) # NoFeature
              /\ BlockedCount(tasks', tracker.entries[FeatureOf(tracker, t)].tasks)
                    >= StallThreshold)
                => FeatureOf(tracker, t) \in needs_respec'
          /\ (Healthy /\ Dispatched(t)) => FeatureOf(tracker, t) \notin needs_respec]_vars

\* Three tasks BLOCKED, the feature flagged, and a ratified fourth task waiting.
C15_Witness ==
    \E f \in needs_respec :
        /\ Healthy /\ f \in DOMAIN tracker.entries
        /\ BlockedCount(tasks, tracker.entries[f].tasks) = StallThreshold
        /\ \E t \in SeqSet(tracker.entries[f].tasks) : tasks[t].state = "RATIFIED"

\* A verification cycle of task t just ran its post-task checklist.
Recomputed(t) ==
    /\ tasks[t].state = "EXECUTING"
    /\ cycle'.task = t /\ cycle'.kind = "verify"
    /\ cycle' # cycle \/ tasks'[t] # tasks[t]

AllVerified(ts, ids) == \A i \in 1..Len(ids) : ts[ids[i]].state = "VERIFIED"

\* C16: after the recomputation that follows a task's cycle, the feature of
\* that task has verified = true exactly when every task of its tasks array
\* is VERIFIED, and phase DONE exactly when verified = true, ACTIVE otherwise
\* (a task of it has been dispatched).
C16_VerifiedIffAllTasksVerified ==
    [][\A t \in TaskIds :
          (Recomputed(t) /\ Healthy /\ FeatureOf(tracker', t) # NoFeature) =>
              LET e == tracker'.entries[FeatureOf(tracker', t)] IN
              /\ e.verified <=> AllVerified(tasks', e.tasks)
              /\ e.phase = "DONE" <=> e.verified
              /\ ~e.verified => e.phase = "ACTIVE"]_vars

\* C17: recomputing an entry from the same task states a second time yields
\* the entry the first run yielded, and a run leaves the entry's tasks array
\* as it was (it reads the tasks and writes only verified and phase).
C17_RecomputeIdempotent ==
    "once" \in DOMAIN probe =>
        /\ probe.twice = probe.once
        /\ probe.once.tasks = probe.entry.tasks

\* A run that changed the entry (ACTIVE to DONE) and a second run that kept it.
C17_Witness ==
    /\ "once" \in DOMAIN probe
    /\ probe.entry.phase = "ACTIVE" /\ ~probe.entry.verified /\ Len(probe.entry.tasks) = 2
    /\ probe.once.phase = "DONE" /\ probe.once.verified
    /\ probe.twice = probe.once

EvidenceComplete(task) == DOMAIN task.evidence # {} /\ PassForEveryId(task)

\* C18: the tracker's verified and phase change only in the step of a task's
\* cycle, and there they are computed from the task list as the cycle left
\* it: the entry of the task's feature becomes verified exactly when, after
\* the transition, every task of the entry has complete PASS evidence, also
\* while other tasks of the feature are executing.
C18_RecomputeAfterCommit ==
    [][/\ \A t \in TaskIds :
             (Recomputed(t) /\ Healthy /\ FeatureOf(tracker, t) # NoFeature) =>
                 LET e == tracker.entries[FeatureOf(tracker, t)]
                     e2 == tracker'.entries[FeatureOf(tracker, t)]
                 IN /\ e2.tasks = e.tasks
                    /\ e2.verified <=>
                          (e.verified \/ \A u \in SeqSet(e.tasks) : EvidenceComplete(tasks'[u]))
                    /\ e2.verified => e2.phase = "DONE"
       /\ \A f \in DOMAIN tracker.entries :
             tracker'.entries[f].verified # tracker.entries[f].verified =>
                 \E t \in SeqSet(tracker.entries[f].tasks) : Recomputed(t)]_vars

\* One task was verified while another task of its feature was executing, and
\* the entry recomputed after that cycle is not verified.
C18_Witness ==
    \E t, u \in TaskIds :
        /\ t # u /\ tasks[t].state = "VERIFIED" /\ tasks[u].state = "EXECUTING"
        /\ cycle.task = t /\ cycle.kind = "verify"
        /\ FeatureOf(tracker, t) # NoFeature /\ FeatureOf(tracker, t) = FeatureOf(tracker, u)
        /\ ~tracker.entries[FeatureOf(tracker, t)].verified

Recovered == ~Healthy /\ tracker'.status = "healthy"

Restored == snapshot.exists /\ tracker'.entries = snapshot.entries

Rebuilt ==
    /\ ~snapshot.exists
    /\ DOMAIN tracker'.entries = DOMAIN overviews
    /\ \A f \in DOMAIN overviews : tracker'.entries[f].tasks = overviews[f]

Fresh == tracker'.entries = <<>> /\ ~snapshot'.exists

\* C19 as stated: a recovery restores the last committed tracker if there is
\* one, otherwise rebuilds it from the overviews if there are any, otherwise
\* starts an empty tracker; and it leaves every task as it was.
C19_RecoveryInStrictOrder ==
    [][Recovered =>
          /\ tasks' = tasks
          /\ IF snapshot.exists THEN Restored
             ELSE IF overviews # <<>> THEN Rebuilt
             ELSE Fresh]_vars

\* C19: a recovery restores the last committed tracker (only if there is one),
\* or rebuilds it from the overviews and the tasks' results (only if there is
\* no committed version), or starts an empty tracker (whenever the tracker is
\* corrupted); under each of the three it leaves the tasks, their states and
\* their evidence as they were.
C19_RecoveryKeepsTasks ==
    [][Recovered =>
          /\ tasks' = tasks
          /\ Restored \/ Rebuilt \/ Fresh]_vars

\* A fresh start was taken for a feature whose overview exists and whose task
\* holds evidence: the tracker is empty, the task is still there.
C19_Witness ==
    /\ Healthy /\ tracker.entries = <<>> /\ ~snapshot.exists
    /\ overviews # <<>>
    /\ \E t \in TaskIds : DOMAIN tasks[t].evidence # {}

RebuildStep ==
    /\ ~Healthy /\ tracker'.status = "healthy"
    /\ ~snapshot.exists /\ overviews # <<>>
    /\ DOMAIN tracker'.entries = DOMAIN overviews

C22_ExecutingScopesDisjoint ==
    /\ [](\A t, u \in TaskIds :
            (t # u /\ tasks[t].state = "EXECUTING" /\ tasks[u].state = "EXECUTING") =>
                tasks[t].packet.file_scope \cap tasks[u].packet.file_scope = {})
    /\ [][\A t \in TaskIds :
             (tasks[t].state # "EXECUTING" /\ tasks'[t].state = "EXECUTING") =>
                 \A u \in TaskIds \ {t} :
                     tasks[u].state = "EXECUTING" =>
                         tasks[u].packet.file_scope \cap tasks[t].packet.file_scope = {}]_vars

\* Two tasks execute at the same time on different files.
C22_Witness ==
    \E t, u \in TaskIds :
        /\ t # u /\ tasks[t].state = "EXECUTING" /\ tasks[u].state = "EXECUTING"
        /\ tasks[t].packet.file_scope # {} /\ tasks[u].packet.file_scope # {}

Submitted == probe.first \o probe.second

LinesFor(id) == {i \in 1..Len(Submitted) : Submitted[i].assertion_id = id}

\* C24: after two reports submitted in a row the task holds one record per
\* assertion id, filed under that id; for an id named in the reports it is
\* the last line submitted for it, whatever was held or submitted before,
\* and for an id not named it is the record held before.
C24_LastSubmissionWins ==
    "stored" \in DOMAIN probe =>
        /\ DOMAIN probe.stored = (DOMAIN probe.held) \cup ReportedIds(Submitted)
        /\ \A id \in DOMAIN probe.stored :
              /\ probe.stored[id].assertion_id = id
              /\ LinesFor(id) # {} =>
                    \E i \in LinesFor(id) :
                        /\ \A j \in LinesFor(id) : j <= i
                        /\ probe.stored[id] = Submitted[i]
              /\ LinesFor(id) = {} => probe.stored[id] = probe.held[id]

\* A FAIL record held for A1 was followed by a report with PASS and then FAIL
\* for A1 and by a retry reporting PASS: the stored record is the PASS.
C24_Witness ==
    /\ "stored" \in DOMAIN probe
    /\ "A1" \in DOMAIN probe.held /\ probe.held["A1"].result = "FAIL"
    /\ probe.first = <<PassLine("A1"), FailLine("A1")>>
    /\ probe.second = <<PassLine("A1")>>
    /\ probe.stored["A1"] = PassLine("A1")

StrictOK(p) == WellFormed(p) /\ AllWellWorded(p)

LintRun(t) ==
    /\ tasks[t].state = "DRAFT"
    /\ tasks'[t].state # "DRAFT" \/ tasks'[t].lint_retry # tasks[t].lint_retry

\* C25: a first failed lint leaves the task in DRAFT with its packet as
\* written, the failure reported and one retry open; the lint run after it
\* ends the parsing (no third strict attempt).  The forgiving parser changes
\* a packet only in a run that follows a failed run and whose own strict
\* parse fails; when what it yields still fails (required fields missing) the
\* task is BLOCKED with the failed checks as its reason.  A packet accepted
\* on any path has its delimiters, parses, and has every required field.
C25_RetryThenFallback ==
    /\ [][\A t \in TaskIds :
             LintRun(t) =>
                 /\ (~tasks[t].lint_retry /\ ~StrictOK(tasks[t].packet)) =>
                       /\ tasks'[t] = [tasks[t] EXCEPT !.lint_retry = TRUE]
                       /\ cycle'.task = t /\ cycle'.kind = "lint" /\ ~cycle'.gates[1].passed
                 /\ tasks[t].lint_retry => tasks'[t].state \in {"LINT_PASS", "BLOCKED"}
                 /\ tasks'[t].packet # tasks[t].packet =>
                       /\ tasks[t].lint_retry /\ ~StrictOK(tasks[t].packet)
                       /\ tasks'[t].state = "LINT_PASS" /\ StrictOK(tasks'[t].packet)
                 /\ tasks'[t].state = "BLOCKED" =>
                       /\ tasks[t].lint_retry /\ ~StrictOK(tasks[t].packet)
                       /\ tasks'[t].blocked_reason.gate = "Spec Lint"
                       /\ tasks'[t].blocked_reason.violations # {}
                 /\ (tasks[t].lint_retry /\ ~(RequiredFields \subseteq tasks[t].packet.fields)) =>
                       tasks'[t].state = "BLOCKED"]_vars
    /\ [](\A t \in TaskIds :
             tasks[t].state \notin {"DRAFT", "BLOCKED"} =>
                 /\ tasks[t].packet.delimiters /\ tasks[t].packet.yaml
                 /\ RequiredFields \subseteq tasks[t].packet.fields
                 /\ tasks[t].packet.fields # {})

\* A packet with broken YAML failed the strict parse twice and was accepted
\* as the forgiving parser read it.
C25_Witness ==
    \E t \in TaskIds :
        /\ tasks[t].state = "LINT_PASS"
        /\ cycle.task = t /\ cycle.kind = "lint" /\ cycle.retry_of = "Spec Lint"
        /\ ~cycle.gates[1].passed
        /\ tasks[t].packet.yaml /\ tasks[t].packet.delimiters
        /\ RequiredFields \subseteq tasks[t].packet.fields

(***************************************************************************)
(* Properties of the blocked reason.                                       *)
(***************************************************************************)
\* C26 as stated: every BLOCKED task carries a reason that names the gate and
\* at least one check that failed.
C26_BlockedNamesGateAndCheck ==
    \A t \in TaskIds :
        tasks[t].state = "BLOCKED" =>
            /\ tasks[t].blocked_reason.gate \in SeqSet(GateOrder)
            /\ tasks[t].blocked_reason.violations # {}

\* C26: every BLOCKED task carries a reason with the stage it was blocked in
\* and what blocked it: a gate, then with the checks of that gate that
\* failed, or the reviewer's circuit breaker, then with the review cycles
\* spent and no gate named.
C26_BlockedCarriesReason ==
    \A t \in TaskIds :
        tasks[t].state = "BLOCKED" =>
            LET r == tasks[t].blocked_reason IN
            /\ r # NoReason
            /\ r.stage \in {"DRAFT", "EXECUTING"}
            /\ \/ /\ r.gate \in SeqSet(GateOrder)
                  /\ r.violations # {}
                  /\ \A v \in r.violations : v.check # "" /\ v.subject # ""
               \/ /\ r.gate = "Agent Review"
                  /\ r.stage = "EXECUTING"
                  /\ tasks[t].review_cycles = MaxReviewCycles

\* A task blocked by the circuit breaker with every gate passed and PASS
\* evidence for every assertion id: no check failed.
C26_Witness ==
    \E t \in TaskIds :
        /\ tasks[t].state = "BLOCKED"
        /\ tasks[t].blocked_reason.gate = "Agent Review"
        /\ tasks[t].blocked_reason.violations = {}
        /\ PassForEveryId(tasks[t])

(***************************************************************************)
(* Properties of the health check service.                                 *)
(***************************************************************************)
HealthRequest(e) == e.req.method = "GET" /\ e.req.path = "/health"

\* C27: every GET /health request, whatever was requested before it, is
\* answered with status 200 and a JSON body whose keys are exactly status
\* and timestamp, with status "ok".
C27_HealthAlwaysOk ==
    \A i \in 1..Len(probe.log) :
        HealthRequest(probe.log[i]) =>
            /\ probe.log[i].res.code = 200
            /\ DOMAIN probe.log[i].res.body = {"status", "timestamp"}
            /\ probe.log[i].res.body.status = "ok"

\* C28: every answered GET /health carries the clock reading of the moment
\* it was handled, so of two answers the later one never has the smaller
\* timestamp.
C28_TimestampsNeverDecrease ==
    \A j \in 1..Len(probe.log) :
        probe.log[j].res.code = 200 =>
            /\ GetTime(probe.log[j].res.body.timestamp) = probe.log[j].at
            /\ \A i \in 1..(j - 1) :
                  probe.log[i].res.code = 200 =>
                      GetTime(probe.log[j].res.body.timestamp)
                          >= GetTime(probe.log[i].res.body.timestamp)

\* Two answers with another request between them, the first in the last
\* millisecond of a second and the second in the first of the next.
C28_Witness ==
    /\ Len(probe.log) = 3
    /\ probe.log[1].res.code = 200 /\ probe.log[3].res.code = 200
    /\ probe.log[2].res.code = 404
    /\ probe.log[1].res.body.timestamp = [seconds |-> 0, millis |-> 999]
    /\ probe.log[3].res.body.timestamp = [seconds |-> 1, millis |-> 0]

(***************************************************************************)
(* Dispatch routing by tier: TRIVIAL goes straight to the implementer, the *)
(* other tiers go through the planner and the task lifecycle.              *)
(***************************************************************************)
MaxRouteTasks == 2

\* A task description with no spec packet between the delimiters.
NoPacket == [Packet(<<>>, {}) EXCEPT !.delimiters = FALSE, !.yaml = FALSE, !.fields = {}]

\* TRIVIAL has no lifecycle state: the task is with the implementer from the
\* moment it is routed.
DirectTask == [NewTask("TRIVIAL", NoPacket) EXCEPT !.state = "DIRECT"]

\* TRIVIAL routing: skip the planner, dispatch the implementer.
DirectDispatch(maxTasks) ==
    /\ nextTaskId <= maxTasks
    /\ tasks' = Extend(tasks, nextTaskId, DirectTask)
    /\ nextTaskId' = nextTaskId + 1
    /\ UNCHANGED <<probe, tracker, snapshot, overviews, nextFeatureId, needs_respec, cycle>>

\* Route with every tier sent through the planner.
RoutePlanned(maxTasks, f, tier, p) ==
    /\ nextTaskId <= maxTasks
    /\ tasks' = Extend(tasks, nextTaskId, NewTask(tier, p))
    /\ nextTaskId' = nextTaskId + 1
    /\ UNCHANGED <<probe, tracker, snapshot, overviews, nextFeatureId, needs_respec, cycle>>

\* The routing decision tree.
Route(maxTasks, f, tier, p) ==
    IF tier = "TRIVIAL" THEN DirectDispatch(maxTasks) ELSE CreateTask(maxTasks, f, tier, p)

NextRoute ==
    \/ CreateFeature
    \/ \E f \in (DOMAIN overviews) \cup {NoFeature}, tier \in {"TRIVIAL", "SIMPLE", "MODERATE", "COMPLEX"},
          p \in {SmallPacket, NoPacket} :
          Route(MaxRouteTasks, f, tier, p)
    \/ \E t \in TaskIds, p \in {SmallPacket, NoPacket} : PlannerRevise(t, p)
    \/ \E t \in TaskIds : LintDraft(t)
    \/ \E t \in TaskIds, v \in {"APPROVED", "NEEDS_CHANGES"} : SpecReview(t, v)
    \/ \E t \in TaskIds : Dispatch(t)
    \/ \E t \in TaskIds, r \in {<<PassLine("A1")>>, <<FailLine("A1")>>}, v \in FeatureVerdicts :
          VerifyCycle(t, r, {"b.txt"}, v)

SpecRoute == Init /\ [][NextRoute]_vars

(***************************************************************************)
(* Warnings: SIMPLE tasks of a feature, their review optional, whose scope *)
(* holds a file the implementer may leave untouched.                       *)
(***************************************************************************)
MaxWarnTasks == 2

NextWarn ==
    \/ CreateFeature
    \/ \E f \in DOMAIN overviews :
          CreateTask(MaxWarnTasks, f, "SIMPLE", Packet(<<MustA("A1")>>, {"a.txt", "b.txt"}))
    \/ \E t \in TaskIds : LintDraft(t)
    \/ \E t \in TaskIds : Dispatch(t)
    \/ \E t \in TaskIds, m \in {{"a.txt"}, {"a.txt", "b.txt"}},
          v \in {"APPROVED", "NEEDS_CHANGES", "SKIPPED"} :
          VerifyCycle(t, <<PassLine("A1")>>, m, v)

SpecWarn == Init /\ [][NextWarn]_vars

(***************************************************************************)
(* One feature with just enough tasks to stall, blocked during execution   *)
(* with their evidence on record, re-specced, with every tracker fault and *)
(* recovery.                                                               *)
(***************************************************************************)
NextKeep ==
    \/ CreateFeature
    \/ \E f \in DOMAIN overviews : CreateTask(StallThreshold, f, "SIMPLE", SmallPacket)
    \/ \E t \in TaskIds : LintDraft(t)
    \/ \E t \in TaskIds : Dispatch(t)
    \/ \E t \in TaskIds, m \in {{"a.txt"}, {"b.txt"}}, v \in {"APPROVED", "NONE"} :
          VerifyCycle(t, <<PassLine("A1")>>, m, v)
    \/ \E f \in DOMAIN overviews, plan \in RespecPlans : ReSpec(StallThreshold, f, plan)
    \/ TrackerNext

SpecKeep == Init /\ [][NextKeep]_vars

(***************************************************************************)
(* Properties of the audit gate and of the tiers.                          *)
(***************************************************************************)
WellFormedRecord(r) ==
    /\ r.result \in {"PASS", "FAIL"}
    /\ r.location
    /\ r.result = "FAIL" => r.expected_actual

\* C29: when Gate 2 runs it passes exactly when every assertion id of the
\* packet has its record and every record of the evidence carries PASS or
\* FAIL and a file:line reference, and expected and actual when it is a FAIL.
C29_AuditIffRecordsWellFormed ==
    ("results" \in DOMAIN probe /\ Len(probe.results) >= 2) =>
        (probe.results[2].passed <=>
            /\ \A id \in AssertionIds(probe.packet) : id \in DOMAIN probe.evidence
            /\ \A id \in DOMAIN probe.evidence :
                  /\ probe.evidence[id].assertion_id = id
                  /\ WellFormedRecord(probe.evidence[id]))

\* Gate 2 passed evidence holding a well-formed FAIL record: the assertions
\* are audited, not all PASS.
C29_Witness ==
    /\ "results" \in DOMAIN probe /\ Len(probe.results) >= 2
    /\ probe.results[2].passed
    /\ \E id \in AssertionIds(probe.packet) : probe.evidence[id].result = "FAIL"
    /\ ~PassForEveryId([packet |-> probe.packet, evidence |-> probe.evidence])

\* A step that makes task t the subject of a lint or verification cycle.
CycleOn(t) == cycle' # cycle /\ cycle'.task = t

\* C30: a TRIVIAL task never has a spec packet or evidence and is never the
\* subject of a gate cycle; it is with the implementer from the step that
\* routes it.  A task of another tier is dispatched only with a spec packet.
C30_TrivialBypassesOthersNeedPacket ==
    /\ [](\A t \in TaskIds :
            tasks[t].tier = "TRIVIAL" =>
                /\ tasks[t].packet = NoPacket
                /\ tasks[t].evidence = NoEvidence
                /\ tasks[t].state = "DIRECT")
    /\ [](\A t \in TaskIds :
            (tasks[t].tier # "TRIVIAL" /\ WasDispatched(tasks[t])) =>
                /\ tasks[t].packet.delimiters
                /\ RequiredFields \subseteq tasks[t].packet.fields
                /\ tasks[t].packet.assertions # <<>>)
    /\ [][\A t \in TaskIds' :
            /\ (CycleOn(t) => tasks'[t].tier # "TRIVIAL")
            /\ (t \in TaskIds /\ Dispatched(t) => tasks[t].packet # NoPacket)]_vars

\* A TRIVIAL task with the implementer next to a planned task that was
\* dispatched with its packet and went through a gate cycle.
C30_Witness ==
    /\ \E t \in TaskIds : tasks[t].tier = "TRIVIAL" /\ tasks[t].state = "DIRECT"
    /\ \E t \in TaskIds :
          /\ tasks[t].tier # "TRIVIAL"
          /\ WasDispatched(tasks[t]) /\ cycle.kind = "verify" /\ cycle.task = t

(***************************************************************************)
(* Properties of the re-spec, of the DONE transition and of escalation.    *)
(***************************************************************************)
\* The step is the re-spec of flagged feature f.
ReSpecStep(f) ==
    /\ f \in needs_respec /\ f \notin needs_respec'
    /\ Healthy /\ f \in DOMAIN tracker.entries

\* C31: a re-spec keeps the feature's id and entry, leaves its phase ACTIVE,
\* gives every replacement task an id no task had before, drops the BLOCKED
\* tasks from the tasks array and lifts the halt; no step of the planner or
\* of a task removes a feature id from the tracker.
C31_ReSpecKeepsFeatureActive ==
    [][/\ \A f \in DOMAIN overviews :
             ReSpecStep(f) =>
                 /\ f \in DOMAIN tracker'.entries
                 /\ tracker'.entries[f].phase = "ACTIVE"
                 /\ SeqSet(tracker'.entries[f].tasks) \ SeqSet(tracker.entries[f].tasks)
                       = TaskIds' \ TaskIds
                 /\ \A t \in SeqSet(tracker'.entries[f].tasks) : tasks'[t].state # "BLOCKED"
                 /\ \A t \in TaskIds' \ TaskIds : t >= nextTaskId
                 /\ \A t \in SeqSet(tracker'.entries[f].tasks) :
                       FeatureOf(tracker', t) \notin needs_respec'
       /\ DOMAIN tracker.entries \subseteq DOMAIN tracker'.entries
       /\ DOMAIN overviews \subseteq DOMAIN overviews']_vars

\* The step takes task t to VERIFIED.
BecomesVerified(t) == tasks[t].state # "VERIFIED" /\ tasks'[t].state = "VERIFIED"

\* C32: with a healthy tracker, the step that takes the last task of a
\* feature not yet VERIFIED to VERIFIED leaves the feature's entry with
\* verified = true and phase DONE in the same step.
C32_DoneWithLastVerified ==
    [][\A t \in TaskIds :
          LET f == FeatureOf(tracker, t) IN
          (/\ Healthy /\ f # NoFeature
           /\ BecomesVerified(t)
           /\ AllVerified(tasks', tracker.entries[f].tasks)) =>
              /\ tracker'.entries[f].verified
              /\ tracker'.entries[f].phase = "DONE"]_vars

\* A feature of two tasks, the second one VERIFIED by the last cycle, DONE.
C32_Witness ==
    \E f \in DOMAIN tracker.entries :
        /\ Healthy /\ Len(tracker.entries[f].tasks) >= 2
        /\ AllVerified(tasks, tracker.entries[f].tasks)
        /\ cycle.kind = "verify" /\ cycle.task \in SeqSet(tracker.entries[f].tasks)
        /\ tracker.entries[f].verified /\ tracker.entries[f].phase = "DONE"

\* The gates of the last cycle all passed.
LastGatesPassed == Len(cycle.gates) = 3 /\ \A i \in 1..3 : cycle.gates[i].passed

\* The step is a verification cycle of task t that has warnings and nothing
\* else: the gates passed, every assertion is PASS, the reviewer, if asked,
\* approved.
WarningsOnly(t) ==
    /\ tasks[t].state = "EXECUTING"
    /\ cycle' # cycle /\ cycle'.task = t /\ cycle'.kind = "verify"
    /\ \E e \in cycle'.warned \ cycle.warned : e.task = t
    /\ tasks'[t].review_cycles = tasks[t].review_cycles

\* A warning logged for t by the step was already logged for another task of
\* t's feature.
Recurs(t) ==
    \E e \in cycle'.warned \ cycle.warned, d \in cycle.warned :
        /\ e.task = t /\ d.task # t /\ d.warning = e.warning
        /\ FeatureOf(tracker, t) # NoFeature
        /\ FeatureOf(tracker, d.task) = FeatureOf(tracker, t)

\* C33: a cycle with warnings only proceeds, the task becomes VERIFIED, and
\* it is Yellow unless one of its warnings was already logged for another
\* task of the feature: then it is Orange and a reviewer has looked at it.
C33_YellowThenOrangeOnRecurrence ==
    [][\A t \in TaskIds :
          WarningsOnly(t) =>
              /\ tasks'[t].state = "VERIFIED"
              /\ ~Recurs(t) => cycle'.level = "Yellow"
              /\ Recurs(t) => cycle'.level = "Orange" /\ cycle'.reviewed]_vars

\* The second task of a feature left the same file of its scope untouched:
\* both are VERIFIED, the last cycle is Orange.
C33_Witness ==
    /\ cycle.kind = "verify" /\ cycle.level = "Orange" /\ LastGatesPassed /\ cycle.reviewed
    /\ tasks[cycle.task].state = "VERIFIED" /\ tasks[cycle.task].tier = "SIMPLE"
    /\ \E e \in cycle.warned, d \in cycle.warned :
          /\ e.task = cycle.task /\ d.task # e.task /\ d.warning = e.warning
          /\ tasks[d.task].state = "VERIFIED"

(***************************************************************************)
(* The Slice 1 lifecycle and the expanded lifecycle.                       *)
(***************************************************************************)
\* Backward compatibility mapping of a task state to its Slice 1 state.
Slice1(state) ==
    IF state \in {"LINT_PASS", "RATIFIED", "EXECUTING"} THEN "ACTIVE"
    ELSE IF state = "VERIFIED" THEN "DONE"
    ELSE state

\* Slice1Step with the steps of the diagram only.
Slice1StepDiagram(a, b, allPass) ==
    \/ a = b
    \/ a = "DRAFT" /\ b = "ACTIVE"
    \/ a = "ACTIVE" /\ b = "DONE" /\ allPass

\* The Slice 1 transition rules; ACTIVE -> ACTIVE (retry) is a stutter.
Slice1Step(a, b, allPass) ==
    \/ a = b
    \/ a = "DRAFT" /\ b = "ACTIVE"
    \/ a = "ACTIVE" /\ b = "DONE" /\ allPass
    \/ a = "ACTIVE" /\ b = "BLOCKED"

\* C34 (as stated): every step of a task in the expanded lifecycle is, under
\* the mapping, a step of the Slice 1 machine or a stutter, and ACTIVE ->
\* DONE happens only with PASS for every assertion.
C34_ProjectsOntoSlice1 ==
    [][\A t \in TaskIds :
          Slice1Step(Slice1(tasks[t].state), Slice1(tasks'[t].state),
                     PassForEveryId(tasks'[t]))]_vars

\* C34 (amended): every step of a task is, under the mapping, a step of the
\* Slice 1 machine or a stutter, or the return of a LINT_PASS task to DRAFT
\* by the spec review, or the blocking of a DRAFT task by the lint gate; and
\* ACTIVE -> DONE happens only with PASS for every assertion.
C34_ProjectsOntoSlice1WithReturns ==
    [][\A t \in TaskIds :
          \/ Slice1Step(Slice1(tasks[t].state), Slice1(tasks'[t].state),
                        PassForEveryId(tasks'[t]))
          \/ tasks[t].state = "LINT_PASS" /\ tasks'[t].state = "DRAFT"
          \/ tasks[t].state = "DRAFT" /\ tasks'[t].state = "BLOCKED"]_vars

\* A MODERATE task that went through LINT_PASS, RATIFIED and EXECUTING and
\* was taken to VERIFIED by the last cycle.
C34_Witness ==
    \E t \in TaskIds :
        /\ tasks[t].tier = "MODERATE" /\ tasks[t].state = "VERIFIED"
        /\ cycle.kind = "verify" /\ cycle.task = t
        /\ PassForEveryId(tasks[t])

\* The lifecycle of a SIMPLE task, which has no RATIFIED state.
SimpleStep(from, to) ==
    \/ from = "DRAFT" /\ to = "LINT_PASS"
    \/ from = "LINT_PASS" /\ to = "EXECUTING"
    \/ from = "EXECUTING" /\ to = "VERIFIED"
    \/ to = "BLOCKED"

\* C35: a SIMPLE task is never RATIFIED and changes state only along DRAFT ->
\* LINT_PASS -> EXECUTING -> VERIFIED (or to BLOCKED); a MODERATE or COMPLEX
\* task is dispatched only from RATIFIED.
C35_SimpleSkipsRatified ==
    /\ [](\A t \in TaskIds : tasks[t].tier = "SIMPLE" => tasks[t].state # "RATIFIED")
    /\ [][\A t \in TaskIds :
             /\ tasks'[t].tier = tasks[t].tier
             /\ (tasks[t].tier = "SIMPLE" /\ tasks'[t].state # tasks[t].state) =>
                   SimpleStep(tasks[t].state, tasks'[t].state)
             /\ (tasks[t].tier \in {"MODERATE", "COMPLEX"} /\ Dispatched(t)) =>
                   tasks[t].state = "RATIFIED"]_vars

\* A SIMPLE task VERIFIED without a spec review next to a COMPLEX task
\* dispatched after its ratification.
C35_Witness ==
    /\ \E t \in TaskIds : tasks[t].tier = "SIMPLE" /\ tasks[t].state = "VERIFIED"
    /\ \E t \in TaskIds : tasks[t].tier = "COMPLEX" /\ tasks[t].state = "EXECUTING"

(***************************************************************************)
(* Halt and re-spec, and what the operations keep.                         *)
(***************************************************************************)
\* Feature f is flagged and the step is not its re-spec.
StaysHalted(f) ==
    /\ Healthy /\ tracker'.status = "healthy"
    /\ f \in needs_respec /\ f \in needs_respec'
    /\ f \in DOMAIN tracker.entries

C37_NothingDeleted ==
    [][/\ TaskIds \subseteq TaskIds'
       /\ \A t \in TaskIds :
             /\ DOMAIN tasks[t].evidence \subseteq DOMAIN tasks'[t].evidence
             /\ tasks'[t].evidence # tasks[t].evidence =>
                   /\ tasks[t].state = "EXECUTING"
                   /\ cycle'.task = t /\ cycle'.kind = "verify"
             /\ \A f \in DOMAIN overviews :
                   (t \in SeqSet(overviews[f]) /\ t \notin SeqSet(overviews'[f])) =>
                       tasks[t].state = "BLOCKED" /\ tasks'[t] = tasks[t]
       /\ (tracker'.status # tracker.status \/ snapshot' # snapshot) => tasks' = tasks]_vars

\* A task blocked during execution and replaced by a re-spec: it is in no
\* tasks array any more and still on the task list with its evidence.
C37_Witness ==
    \E f \in DOMAIN overviews : \E t \in TaskIds :
        /\ tasks[t].state = "BLOCKED" /\ DOMAIN tasks[t].evidence # {}
        /\ Healthy /\ f \in DOMAIN tracker.entries
        /\ t \notin SeqSet(tracker.entries[f].tasks) /\ t \notin SeqSet(overviews[f])

C39_NoAssertionsNeverLeavesDraft ==
    \A t \in TaskIds :
        tasks[t].packet.assertions = <<>> => tasks[t].state \in {"DRAFT", "BLOCKED"}

PhaseRank(phase) == IF phase = "DRAFT" THEN 0 ELSE IF phase = "ACTIVE" THEN 1 ELSE 2

\* C40: in every tracker state every entry has phase DONE exactly when
\* verified is true, and no step of a task, of the planner or of a
\* recomputation moves an entry's phase backwards.
C40_DoneIffVerifiedPhaseForward ==
    /\ [](Healthy =>
            \A f \in DOMAIN tracker.entries :
                /\ tracker.entries[f].phase \in {"DRAFT", "ACTIVE", "DONE"}
                /\ tracker.entries[f].phase = "DONE" <=> tracker.entries[f].verified)
    /\ [][(Healthy /\ tracker'.status = "healthy") =>
             \A f \in DOMAIN tracker.entries :
                 /\ f \in DOMAIN tracker'.entries
                 /\ PhaseRank(tracker'.entries[f].phase) >= PhaseRank(tracker.entries[f].phase)]_vars

\* A feature that went from DRAFT through ACTIVE to DONE with the cycles of
\* its three tasks.
C40_Witness ==
    \E f \in DOMAIN tracker.entries :
        /\ Healthy /\ Len(tracker.entries[f].tasks) = StallThreshold
        /\ AllVerified(tasks, tracker.entries[f].tasks)
        /\ tracker.entries[f].phase = "DONE" /\ tracker.entries[f].verified
        /\ f \notin needs_respec

====
